---- MODULE Spec2Model ----
(***************************************************************************)
(* A model of cargo-casper's local global-state cache:                     *)
(*   lib/src/storage.rs                 Storage  (in-memory map + file)    *)
(*   lib/src/subcommands/exec/state.rs  State    (read-through view)       *)
(*   lib/src/cached_config.rs           CachedConfig (the cached options)  *)
(*   lib/src/subcommands/{exec,show,clean}.rs     the subcommands          *)
(* An action is one call of one method, one step of a thread of            *)
(* State::read, or one run of a subcommand; its result is left in `last`.  *)
(***************************************************************************)
EXTENDS Integers, Sequences, FiniteSets, TLC

VARIABLES
    files,       \* the file system: snapshot path -> bytes of the file there
    dirs,        \* the directories that exist
    storage,     \* the process's Storage: [live, path, data]
    state_hash,  \* the state root the State view is pinned to (exec.rs:121)
    state_storage, \* the State's `storage` field: a clone of the Storage
    persisted,   \* history: what the last write to each snapshot path left
    bridge,      \* State::read in progress: the caller, its worker thread and
                 \* the request, with the runtime they run in
    project_dirs, \* the environment: whether ProjectDirs::from finds the
                 \* user's directories (a home directory is known)
    cached,      \* history: the options the last exec run wrote to the
                 \* cached config
    last         \* the last call: its name, arguments and returned value

vars ==
    <<files, dirs, storage, state_hash, state_storage, persisted, bridge,
      project_dirs, cached, last>>

----------------------------------------------------------------------------
(* Bounds of the model *)

\* the longest journal handed to commit
MaxBatch == 2

----------------------------------------------------------------------------
(* Keys, stored values, digests, paths *)

KeySeq == <<"k1", "k2">>
Keys == {KeySeq[i] : i \in 1..Len(KeySeq)}

CLInt(n) == [type |-> "int", n |-> n]
CLString == [type |-> "str", n |-> 0]
\* the numbers a numeric stored value can hold; additions wrap around
IntValues == 0..1
IntModulus == Cardinality(IntValues)
StoredValues == {CLInt(n) : n \in IntValues} \cup {CLString}

\* HashMap::new()
EmptyMap == [k \in {} |-> CLString]

\* a Digest is modelled by its hex rendering, format!("{:?}", state_hash)
DigestA == <<"a", "b", "c", "d", "e", "f", "0", "1">>
Digests == {DigestA}
NoDigest == <<>>
RootPaths == {"storage_dir"}
ChainNames == {"net"}

ShortHashLen == 7

\* short_hash.truncate(7)
ShortHash(state_hash_) ==
    SubSeq(state_hash_, 1, IF Len(state_hash_) < ShortHashLen
                           THEN Len(state_hash_) ELSE ShortHashLen)

\* root_path.join(format!("{}-{}", chain_name, short_hash))
Path(root_path, chain_name, state_hash_) ==
    [dir |-> root_path, file |-> <<chain_name, ShortHash(state_hash_)>>]

NoPath == [dir |-> "", file |-> <<>>]
\* self.path.parent()
Parent(path) == [dir |-> path.dir, file |-> <<>>]
NullStorage == [live |-> FALSE, path |-> NoPath, data |-> EmptyMap]

\* A handle is a Storage value as its holder sees it: the path and the Rc.
\* rc names the allocation the Rc points to: "storage" is the map that
\* Storage::new allocated, whose contents are storage.data; a handle
\* pointing to any other allocation carries that map in `own`.
NullHandle == [live |-> FALSE, path |-> NoPath, rc |-> "storage", own |-> EmptyMap]
\* the handle Storage::new returns
OriginalHandle(storage_) ==
    [live |-> storage_.live, path |-> storage_.path, rc |-> "storage",
     own |-> EmptyMap]

\* a clone that allocates a map of its own and copies the entries into it
CloneDeepCopy(handle, data) == [handle EXCEPT !.rc = "own", !.own = data]

\* #[derive(Clone)] on Storage: PathBuf::clone and Rc::clone; `data` is what
\* the allocation holds, which Rc::clone does not copy
CloneResult(handle, data) == handle

----------------------------------------------------------------------------
(* The codec of the snapshot file: bytesrepr of HashMap<Key, StoredValue>  *)
(* A file is a sequence of integers: the number of entries, then for each  *)
(* entry the key's code and the value (tag 0 and a number, or tag 1).      *)

KeyCode(key) == CHOOSE i \in 1..Len(KeySeq) : KeySeq[i] = key

ValueBytes(value) ==
    IF value.type = "int" THEN <<0, value.n>> ELSE <<1>>

RECURSIVE EntriesBytes(_, _)
EntriesBytes(data, order) ==
    IF order = <<>> THEN <<>>
    ELSE <<KeyCode(Head(order))>> \o ValueBytes(data[Head(order)])
         \o EntriesBytes(data, Tail(order))

\* (*self.data.borrow()).to_bytes(), the entries in the map's iteration order
ToBytes(data, order) == <<Len(order)>> \o EntriesBytes(data, order)

\* the iteration orders a HashMap over these keys can have
Orders(data) ==
    {o \in UNION {[1..n -> DOMAIN data] : n \in {Cardinality(DOMAIN data)}} :
        \A i, j \in 1..Len(o) : i # j => o[i] # o[j]}

\* HashMap::insert
MapInsert(data, key, value) == (key :> value) @@ data

DecodeOk(data) == [ok |-> TRUE, data |-> data, error |-> ""]
DecodeErr(error) == [ok |-> FALSE, data |-> EmptyMap, error |-> error]

RECURSIVE FromBytesEntries(_, _, _)
FromBytesEntries(bytes, n, acc) ==
    IF n = 0 THEN
        IF bytes = <<>> THEN DecodeOk(acc) ELSE DecodeErr("LeftOverBytes")
    ELSE IF Len(bytes) < 2 THEN DecodeErr("EarlyEndOfStream")
    ELSE IF bytes[1] \notin 1..Len(KeySeq) THEN DecodeErr("Formatting")
    ELSE IF bytes[2] = 0 THEN
        IF Len(bytes) < 3 THEN DecodeErr("EarlyEndOfStream")
        ELSE FromBytesEntries(SubSeq(bytes, 4, Len(bytes)), n - 1,
                              MapInsert(acc, KeySeq[bytes[1]], CLInt(bytes[3])))
    ELSE IF bytes[2] = 1 THEN
        FromBytesEntries(SubSeq(bytes, 3, Len(bytes)), n - 1,
                         MapInsert(acc, KeySeq[bytes[1]], CLString))
    ELSE DecodeErr("Formatting")

\* a decoder that opens the file and ignores what it holds
DeserializeIgnoresContents(bytes) ==
    IF bytes = <<>> THEN DecodeErr("EarlyEndOfStream") ELSE DecodeOk(EmptyMap)

\* bytesrepr::deserialize(serialized): the whole input must be consumed
Deserialize(bytes) ==
    IF bytes = <<>> THEN DecodeErr("EarlyEndOfStream")
    ELSE FromBytesEntries(Tail(bytes), Head(bytes), EmptyMap)

----------------------------------------------------------------------------
(* Returned values *)

Ok == [tag |-> "Ok"]
Err(error) == [tag |-> "Err", error |-> error]
None == [tag |-> "None"]
Some(value) == [tag |-> "Some", value |-> value]

----------------------------------------------------------------------------
(* Storage *)

\* what the file system does to persist(): every call succeeds, or the
\* directory cannot be created, or the file cannot be opened for writing, or
\* the write fails after the file was created/truncated
IoOutcomes == {"ok", "create_dir_fails", "write_denied", "write_partial"}

\* Storage::persist
PersistResult(files_, dirs_, path, data, order, io) ==
    LET dir == path.dir
        serialized == ToBytes(data, order)
    IN  IF dir \notin dirs_ /\ io = "create_dir_fails" THEN
            [ret |-> Err([kind |-> "CreateDir", path |-> Parent(path)]),
             files |-> files_, dirs |-> dirs_]
        ELSE IF io = "write_denied" THEN
            [ret |-> Err([kind |-> "Write", path |-> path]),
             files |-> files_, dirs |-> dirs_ \cup {dir}]
        ELSE IF io = "write_partial" THEN
            [ret |-> Err([kind |-> "Write", path |-> path]),
             files |-> (path :> <<>>) @@ files_, dirs |-> dirs_ \cup {dir}]
        ELSE
            [ret |-> Ok,
             files |-> (path :> serialized) @@ files_, dirs |-> dirs_ \cup {dir}]

\* Storage::new that creates the snapshot whatever create_if_missing says
StorageNewCreatesAnyway(files_, dirs_, root_path, chain_name, state_hash_, create_if_missing, io) ==
    LET path == Path(root_path, chain_name, state_hash_)
    IN  IF path \notin DOMAIN files_ THEN
            LET p == PersistResult(files_, dirs_, path, EmptyMap, <<>>, io)
            IN  IF p.ret = Ok
                THEN [ret |-> Ok, files |-> p.files, dirs |-> p.dirs,
                      storage |-> [live |-> TRUE, path |-> path,
                                   data |-> EmptyMap]]
                ELSE [ret |-> p.ret, files |-> p.files, dirs |-> p.dirs,
                      storage |-> NullStorage]
        ELSE IF io = "read_fails" THEN
            [ret |-> Err([kind |-> "Read", path |-> path]),
             files |-> files_, dirs |-> dirs_, storage |-> NullStorage]
        ELSE
            LET decoded == Deserialize(files_[path])
            IN  IF decoded.ok
                THEN [ret |-> Ok, files |-> files_, dirs |-> dirs_,
                      storage |-> [live |-> TRUE, path |-> path,
                                   data |-> decoded.data]]
                ELSE [ret |-> Err([kind |-> "Deserialize", path |-> path,
                                   cause |-> decoded.error]),
                      files |-> files_, dirs |-> dirs_,
                      storage |-> NullStorage]

\* Storage::new that returns the fresh empty store without persisting it
StorageNewSkipsPersist(files_, dirs_, root_path, chain_name, state_hash_, create_if_missing, io) ==
    LET path == Path(root_path, chain_name, state_hash_)
    IN  IF path \notin DOMAIN files_ THEN
            IF create_if_missing THEN
                [ret |-> Ok, files |-> files_, dirs |-> dirs_,
                 storage |-> [live |-> TRUE, path |-> path,
                              data |-> EmptyMap]]
            ELSE [ret |-> Err([kind |-> "MissingFile", path |-> path]),
                  files |-> files_, dirs |-> dirs_, storage |-> NullStorage]
        ELSE IF io = "read_fails" THEN
            [ret |-> Err([kind |-> "Read", path |-> path]),
             files |-> files_, dirs |-> dirs_, storage |-> NullStorage]
        ELSE
            LET decoded == Deserialize(files_[path])
            IN  IF decoded.ok
                THEN [ret |-> Ok, files |-> files_, dirs |-> dirs_,
                      storage |-> [live |-> TRUE, path |-> path,
                                   data |-> decoded.data]]
                ELSE [ret |-> Err([kind |-> "Deserialize", path |-> path,
                                   cause |-> decoded.error]),
                      files |-> files_, dirs |-> dirs_,
                      storage |-> NullStorage]

\* a Storage::new that, asked to create, replaces a snapshot it cannot decode
\* by an empty one
StorageNewResetsCorrupt(files_, dirs_, root_path, chain_name, state_hash_, create_if_missing, io) ==
    LET path == Path(root_path, chain_name, state_hash_)
        fresh == PersistResult(files_, dirs_, path, EmptyMap, <<>>, "ok")
    IN  IF path \notin DOMAIN files_ THEN
            IF create_if_missing THEN
                LET p == PersistResult(files_, dirs_, path, EmptyMap, <<>>, io)
                IN  IF p.ret = Ok
                    THEN [ret |-> Ok, files |-> p.files, dirs |-> p.dirs,
                          storage |-> [live |-> TRUE, path |-> path,
                                       data |-> EmptyMap]]
                    ELSE [ret |-> p.ret, files |-> p.files, dirs |-> p.dirs,
                          storage |-> NullStorage]
            ELSE [ret |-> Err([kind |-> "MissingFile", path |-> path]),
                  files |-> files_, dirs |-> dirs_, storage |-> NullStorage]
        ELSE IF io = "read_fails" THEN
            [ret |-> Err([kind |-> "Read", path |-> path]),
             files |-> files_, dirs |-> dirs_, storage |-> NullStorage]
        ELSE
            LET decoded == Deserialize(files_[path])
            IN  IF decoded.ok
                THEN [ret |-> Ok, files |-> files_, dirs |-> dirs_,
                      storage |-> [live |-> TRUE, path |-> path,
                                   data |-> decoded.data]]
                ELSE IF create_if_missing
                THEN [ret |-> Ok, files |-> fresh.files, dirs |-> fresh.dirs,
                      storage |-> [live |-> TRUE, path |-> path,
                                   data |-> EmptyMap]]
                ELSE [ret |-> Err([kind |-> "Deserialize", path |-> path,
                                   cause |-> decoded.error]),
                      files |-> files_, dirs |-> dirs_,
                      storage |-> NullStorage]

\* Storage::new
StorageNewResult(files_, dirs_, root_path, chain_name, state_hash_, create_if_missing, io) ==
    LET path == Path(root_path, chain_name, state_hash_)
    IN  IF path \notin DOMAIN files_ THEN
            IF create_if_missing THEN
                LET p == PersistResult(files_, dirs_, path, EmptyMap, <<>>, io)
                IN  IF p.ret = Ok
                    THEN [ret |-> Ok, files |-> p.files, dirs |-> p.dirs,
                          storage |-> [live |-> TRUE, path |-> path,
                                       data |-> EmptyMap]]
                    ELSE [ret |-> p.ret, files |-> p.files, dirs |-> p.dirs,
                          storage |-> NullStorage]
            ELSE [ret |-> Err([kind |-> "MissingFile", path |-> path]),
                  files |-> files_, dirs |-> dirs_, storage |-> NullStorage]
        ELSE IF io = "read_fails" THEN
            [ret |-> Err([kind |-> "Read", path |-> path]),
             files |-> files_, dirs |-> dirs_, storage |-> NullStorage]
        ELSE
            LET decoded == Deserialize(files_[path])
            IN  IF decoded.ok
                THEN [ret |-> Ok, files |-> files_, dirs |-> dirs_,
                      storage |-> [live |-> TRUE, path |-> path,
                                   data |-> decoded.data]]
                ELSE [ret |-> Err([kind |-> "Deserialize", path |-> path,
                                   cause |-> decoded.error]),
                      files |-> files_, dirs |-> dirs_,
                      storage |-> NullStorage]

\* an insert that keeps the value already held (entry().or_insert())
InsertKeepsExisting(data, key, value) ==
    IF key \in DOMAIN data THEN data ELSE MapInsert(data, key, value)

\* Storage::insert
InsertResult(data, key, value) == MapInsert(data, key, value)

\* Storage::get
GetResult(data, key) ==
    IF key \in DOMAIN data THEN Some(data[key]) ELSE None

----------------------------------------------------------------------------
(* Transforms and commit *)

Identity == [kind |-> "Identity"]
Write(value) == [kind |-> "Write", value |-> value]
AddInt(n) == [kind |-> "AddInt", n |-> n]

TransformKinds ==
    {Identity, AddInt(1)} \cup {Write(v) : v \in StoredValues}
Effects == [key : Keys, kind : TransformKinds]
JournalsUpTo(n) == UNION {[1..m -> Effects] : m \in 0..n}
Journals == JournalsUpTo(MaxBatch)
SingleEffectJournals == JournalsUpTo(1)

\* kind.apply(current_value): numeric additions wrap, anything else added
\* to is a type mismatch
Apply(kind, current_value) ==
    IF current_value.type = "int"
    THEN [ok |-> TRUE,
          value |-> CLInt((current_value.n + kind.n) % IntModulus)]
    ELSE [ok |-> FALSE, value |-> current_value]

\* Storage::commit, from the i-th effect on
RECURSIVE CommitFrom(_, _, _)
CommitFrom(data, effects, i) ==
    IF i > Len(effects) THEN [ret |-> Ok, data |-> data, applied |-> i - 1]
    ELSE
        LET effect == effects[i]
        IN  IF effect.kind.kind = "Identity" THEN
                CommitFrom(data, effects, i + 1)
            ELSE IF effect.kind.kind = "Write" THEN
                CommitFrom(InsertResult(data, effect.key, effect.kind.value),
                           effects, i + 1)
            ELSE IF effect.key \notin DOMAIN data THEN
                [ret |-> Err([kind |-> "KeyNotFound", key |-> effect.key]),
                 data |-> data, applied |-> i - 1]
            ELSE
                LET new_value == Apply(effect.kind, data[effect.key])
                IN  IF new_value.ok
                    THEN CommitFrom(
                             InsertResult(data, effect.key, new_value.value),
                             effects, i + 1)
                    ELSE [ret |-> Err([kind |-> "TransformError",
                                       cause |-> "TypeMismatch"]),
                          data |-> data, applied |-> i - 1]

Reverse(seq) == [i \in 1..Len(seq) |-> seq[Len(seq) + 1 - i]]

\* a commit that walks the journal from its last effect to its first
CommitReversed(data, effects) == CommitFrom(data, Reverse(effects), 1)

\* a commit whose updates start from a default value when the key is absent
RECURSIVE CommitUpsertFrom(_, _, _)
CommitUpsertFrom(data, effects, i) ==
    IF i > Len(effects) THEN [ret |-> Ok, data |-> data, applied |-> i - 1]
    ELSE
        LET effect == effects[i]
        IN  IF effect.kind.kind = "Identity" THEN
                CommitUpsertFrom(data, effects, i + 1)
            ELSE IF effect.kind.kind = "Write" THEN
                CommitUpsertFrom(
                    InsertResult(data, effect.key, effect.kind.value),
                    effects, i + 1)
            ELSE
                LET current_value == IF effect.key \in DOMAIN data
                                     THEN data[effect.key] ELSE CLInt(0)
                    new_value == Apply(effect.kind, current_value)
                IN  IF new_value.ok
                    THEN CommitUpsertFrom(
                             InsertResult(data, effect.key, new_value.value),
                             effects, i + 1)
                    ELSE [ret |-> Err([kind |-> "TransformError",
                                       cause |-> "TypeMismatch"]),
                          data |-> data, applied |-> i - 1]

CommitUpsert(data, effects) == CommitUpsertFrom(data, effects, 1)

\* a commit that restores the map it started from when an effect fails
CommitRollsBack(data, effects) ==
    LET c == CommitFrom(data, effects, 1)
    IN  IF c.ret = Ok THEN c ELSE [c EXCEPT !.data = data]

\* Storage::commit
CommitResult(data, effects) == CommitFrom(data, effects, 1)

----------------------------------------------------------------------------
(* State: the read-through view *)

\* the JSON-RPC error code of "value not found in global state"
QueryFailedCode == -32003

\* what casper_client::query_global_state can hand back
RemoteResponses ==
    {[tag |-> "Ok", stored_value |-> v] : v \in StoredValues}
    \cup {[tag |-> "ResponseIsRpcError", code |-> c] :
             c \in {QueryFailedCode, QueryFailedCode + 1}}
    \cup {[tag |-> "FailedToGetResponse"], [tag |-> "InvalidResponse"]}

\* GlobalStateError::BytesRepr(bytesrepr::Error::NotRepresentable)
ReadError == Err([kind |-> "BytesRepr", cause |-> "NotRepresentable"])

\* a read that returns the fetched value without caching it
ReadDoesNotCache(data, key, response) ==
    IF GetResult(data, key) # None THEN
        [ret |-> Some(GetResult(data, key).value), data |-> data,
         fetched |-> 0]
    ELSE IF response.tag = "Ok" THEN
        [ret |-> Some(response.stored_value), data |-> data, fetched |-> 1]
    ELSE IF response.tag = "ResponseIsRpcError"
            /\ response.code = QueryFailedCode THEN
        [ret |-> None, data |-> data, fetched |-> 1]
    ELSE [ret |-> ReadError, data |-> data, fetched |-> 1]

\* a read that asks the remote first and falls back to the store
ReadRemoteFirst(data, key, response) ==
    IF response.tag = "Ok" THEN
        [ret |-> Some(response.stored_value),
         data |-> InsertResult(data, key, response.stored_value),
         fetched |-> 1]
    ELSE IF GetResult(data, key) # None THEN
        [ret |-> Some(GetResult(data, key).value), data |-> data,
         fetched |-> 1]
    ELSE IF response.tag = "ResponseIsRpcError"
            /\ response.code = QueryFailedCode THEN
        [ret |-> None, data |-> data, fetched |-> 1]
    ELSE [ret |-> ReadError, data |-> data, fetched |-> 1]

\* a read that reports the remote's "not found" as a failure
ReadNotFoundIsError(data, key, response) ==
    IF GetResult(data, key) # None THEN
        [ret |-> Some(GetResult(data, key).value), data |-> data,
         fetched |-> 0]
    ELSE IF response.tag = "Ok" THEN
        [ret |-> Some(response.stored_value),
         data |-> InsertResult(data, key, response.stored_value),
         fetched |-> 1]
    ELSE [ret |-> ReadError, data |-> data, fetched |-> 1]

\* a read that takes every RPC error for "not found", whatever its code
ReadAnyRpcErrorIsNone(data, key, response) ==
    IF GetResult(data, key) # None THEN
        [ret |-> Some(GetResult(data, key).value), data |-> data,
         fetched |-> 0]
    ELSE IF response.tag = "Ok" THEN
        [ret |-> Some(response.stored_value),
         data |-> InsertResult(data, key, response.stored_value),
         fetched |-> 1]
    ELSE IF response.tag = "ResponseIsRpcError" THEN
        [ret |-> None, data |-> data, fetched |-> 1]
    ELSE [ret |-> ReadError, data |-> data, fetched |-> 1]

\* State::read: response is what the remote answers if it is asked
ReadResult(data, key, response) ==
    IF GetResult(data, key) # None THEN
        [ret |-> Some(GetResult(data, key).value), data |-> data,
         fetched |-> 0]
    ELSE IF response.tag = "Ok" THEN
        [ret |-> Some(response.stored_value),
         data |-> InsertResult(data, key, response.stored_value),
         fetched |-> 1]
    ELSE IF response.tag = "ResponseIsRpcError"
            /\ response.code = QueryFailedCode THEN
        [ret |-> None, data |-> data, fetched |-> 1]
    ELSE [ret |-> ReadError, data |-> data, fetched |-> 1]

----------------------------------------------------------------------------
(* Actions *)

\* no answer of the remote
NoResponse == [tag |-> "NoResponse"]
\* no read in progress, in the given runtime ("none": no runtime was built)
IdleBridge(runtime) ==
    [runtime |-> runtime, caller |-> "running", key |-> "", worker |-> "none",
     request |-> "none", requests |-> 0, response |-> NoResponse]
\* the calling thread is in join_handle.join()
Blocked == bridge.caller = "joining"

\* the thread has panicked: it unwinds, and nothing but the drops run
Panicked == "ret" \in DOMAIN last /\ last.ret.tag = "Panic"

Init ==
    /\ files = [p \in {} |-> <<>>]
    /\ dirs = {}
    /\ storage = NullStorage
    /\ state_hash = NoDigest
    /\ state_storage = NullHandle
    /\ bridge = IdleBridge("none")
    /\ project_dirs = TRUE
    /\ cached = None
    /\ persisted = [p \in {} |-> [ok |-> FALSE, data |-> EmptyMap]]
    /\ last = [op |-> "init"]

\* self.data.borrow(), through a handle
HandleData(handle) ==
    IF handle.rc = "storage" THEN storage.data ELSE handle.own

\* self.data.borrow_mut() through a handle: the allocation it points to is
\* left holding `data`
BorrowMut(handle, data) ==
    /\ storage' = IF handle.rc = "storage"
                  THEN [storage EXCEPT !.data = data] ELSE storage
    /\ state_storage' = IF handle.rc = "storage" THEN state_storage
                        ELSE [state_storage EXCEPT !.own = data]

\* what a call that wrote (or tried to write) `data` to `path` left behind
Written(files_, files2, path, data, ret) ==
    IF ret = Ok THEN (path :> [ok |-> TRUE, data |-> data]) @@ persisted
    ELSE IF files2 # files_
         THEN (path :> [ok |-> FALSE, data |-> EmptyMap]) @@ persisted
         ELSE persisted

\* history: the (network name, state root digest) of the store whose call
\* wrote the file at `path`
OwnedBy(written, path, chain_name, state_hash_) ==
    [p \in DOMAIN written |->
        IF p = path /\ "owner" \notin DOMAIN written[p]
        THEN [ok |-> written[p].ok, data |-> written[p].data,
              owner |-> <<chain_name, state_hash_>>]
        ELSE written[p]]

\* Storage::new(root_path, chain_name, state_hash, create_if_missing), and
\* State::new(state_hash, storage.clone(), node_address) when it succeeds
StorageNew(root_path, chain_name, state_hash_, create_if_missing, io) ==
    /\ ~storage.live
    /\ LET path == Path(root_path, chain_name, state_hash_)
           r == StorageNewResult(files, dirs, root_path, chain_name,
                                 state_hash_, create_if_missing, io)
       IN  /\ files' = r.files
           /\ dirs' = r.dirs
           /\ storage' = r.storage
           /\ state_hash' = IF r.ret = Ok THEN state_hash_ ELSE NoDigest
           /\ state_storage' = IF r.ret = Ok
                               THEN CloneResult(OriginalHandle(r.storage),
                                                r.storage.data)
                               ELSE NullHandle
           /\ persisted' = IF path \in DOMAIN files THEN persisted
                           ELSE OwnedBy(Written(files, r.files, path,
                                                EmptyMap, r.ret),
                                        path, chain_name, state_hash_)
           /\ last' = [op |-> "new", path |-> path, root_path |-> root_path,
                       chain_name |-> chain_name, state_hash |-> state_hash_,
                       create_if_missing |-> create_if_missing,
                       existed |-> path \in DOMAIN files,
                       io |-> io, ret |-> r.ret]
    /\ UNCHANGED <<bridge, project_dirs, cached>>

\* an insert that also writes the map to the file
InsertAutoPersists(key, value) ==
    /\ storage.live
    /\ ~Panicked
    /\ ~Blocked
    /\ storage' = [storage EXCEPT !.data = InsertResult(@, key, value)]
    /\ \E order \in Orders(storage'.data) :
           LET p == PersistResult(files, dirs, storage.path, storage'.data,
                                  order, "ok")
           IN  /\ files' = p.files
               /\ dirs' = p.dirs
               /\ persisted' = Written(files, p.files, storage.path,
                                       storage'.data, p.ret)
    /\ last' = [op |-> "insert", key |-> key, value |-> value, ret |-> Ok]
    /\ UNCHANGED <<state_hash, state_storage>>
    /\ UNCHANGED <<bridge, project_dirs, cached>>

\* storage.insert(key, value)
Insert(key, value) ==
    /\ storage.live
    /\ ~Panicked
    /\ ~Blocked
    /\ storage' = [storage EXCEPT !.data = InsertResult(@, key, value)]
    /\ last' = [op |-> "insert", key |-> key, value |-> value, ret |-> Ok]
    /\ UNCHANGED <<files, dirs, state_hash, state_storage, persisted>>
    /\ UNCHANGED <<bridge, project_dirs, cached>>

\* storage.get(key)
Get(key) ==
    /\ storage.live
    /\ ~Panicked
    /\ ~Blocked
    /\ last' = [op |-> "get", key |-> key,
                ret |-> GetResult(storage.data, key)]
    /\ UNCHANGED <<files, dirs, storage, state_hash, state_storage, persisted>>
    /\ UNCHANGED <<bridge, project_dirs, cached>>

\* storage.commit(effects)
Commit(effects) ==
    /\ storage.live
    /\ ~Panicked
    /\ ~Blocked
    /\ LET r == CommitResult(storage.data, effects)
       IN  /\ storage' = [storage EXCEPT !.data = r.data]
           /\ last' = [op |-> "commit", effects |-> effects,
                       fresh |-> {effects[i].key : i \in 1..Len(effects)}
                                     \ DOMAIN storage.data,
                       applied |-> r.applied, ret |-> r.ret]
    /\ UNCHANGED <<files, dirs, state_hash, state_storage, persisted>>
    /\ UNCHANGED <<bridge, project_dirs, cached>>

\* storage.persist()
Persist(order, io) ==
    /\ storage.live
    /\ ~Panicked
    /\ ~Blocked
    /\ LET r == PersistResult(files, dirs, storage.path, storage.data,
                              order, io)
       IN  /\ files' = r.files
           /\ dirs' = r.dirs
           /\ persisted' = OwnedBy(Written(files, r.files, storage.path,
                                           storage.data, r.ret),
                                   storage.path, storage.path.file[1],
                                   state_hash)
           /\ last' = [op |-> "persist", io |-> io, ret |-> r.ret]
    /\ UNCHANGED <<storage, state_hash, state_storage>>
    /\ UNCHANGED <<bridge, project_dirs, cached>>

\* state.read(key); response is what the remote answers if it is asked
Read(key, response) ==
    /\ storage.live
    /\ ~Panicked
    /\ ~Blocked
    /\ LET r == ReadResult(HandleData(state_storage), key, response)
       IN  /\ BorrowMut(state_storage, r.data)
           /\ last' = [op |-> "read", key |-> key, fetched |-> r.fetched,
                       response |-> response, ret |-> r.ret]
    /\ UNCHANGED <<files, dirs, state_hash, persisted>>
    /\ UNCHANGED <<bridge, project_dirs, cached>>

\* the Storage and its clones go out of scope (no Drop impl writes the file)
Drop ==
    /\ storage.live
    /\ ~Blocked
    /\ storage' = NullStorage
    /\ state_hash' = NoDigest
    /\ state_storage' = NullHandle
    /\ last' = [op |-> "drop"]
    /\ UNCHANGED <<files, dirs, persisted>>
    /\ UNCHANGED <<bridge, project_dirs, cached>>

\* every operation, the journals of at most one effect
Next ==
    \/ \E root_path \in RootPaths, chain_name \in ChainNames,
          state_hash_ \in Digests, create_if_missing \in BOOLEAN,
          io \in IoOutcomes \cup {"read_fails"} :
          StorageNew(root_path, chain_name, state_hash_, create_if_missing, io)
    \/ \E key \in Keys, value \in StoredValues : Insert(key, value)
    \/ \E key \in Keys : Get(key)
    \/ \E effects \in SingleEffectJournals : Commit(effects)
    \/ \E order \in Orders(storage.data), io \in IoOutcomes : Persist(order, io)
    \/ \E key \in Keys, response \in RemoteResponses : Read(key, response)
    \/ Drop

Spec == Init /\ [][Next]_vars

\* the operations on the in-memory map, the journals of up to MaxBatch effects
NextCommit ==
    \/ \E root_path \in RootPaths, chain_name \in ChainNames,
          state_hash_ \in Digests, create_if_missing \in BOOLEAN,
          io \in IoOutcomes \cup {"read_fails"} :
          StorageNew(root_path, chain_name, state_hash_, create_if_missing, io)
    \/ \E key \in Keys, value \in StoredValues : Insert(key, value)
    \/ \E key \in Keys : Get(key)
    \/ \E effects \in Journals : Commit(effects)
    \/ \E key \in Keys, response \in RemoteResponses : Read(key, response)
    \/ Drop

SpecCommit == Init /\ [][NextCommit]_vars

----------------------------------------------------------------------------
(* State: the StateReader, StateProvider and CommitProvider the engine uses *)

\* a state root other than the one the State is pinned to
DigestB == <<"a", "b", "c", "d", "e", "f", "0", "2">>
\* Digest::default()
DefaultDigest == <<"0", "0", "0", "0", "0", "0", "0", "0">>
\* the state_hash arguments the engine may pass
RequestedDigests == Digests \cup {DigestB, DefaultDigest}

\* a call that does not return: the thread panics with `message`
Panic(message) == [tag |-> "Panic", message |-> message]
AssertEqFailed == Panic("assertion failed: left == right")
NotImplemented == Panic("not implemented")
\* Ok(value)
OkValue(value) == [tag |-> "Ok", value |-> value]

\* a State, as a value: #[derive(Clone)] clones the Storage field
StateClone(pinned, handle, data) ==
    [state_hash |-> pinned, storage |-> CloneResult(handle, data)]

\* a checkout that answers a root it does not serve with Ok(None)
CheckoutNoneOnMismatch(pinned, handle, data, state_hash_) ==
    IF state_hash_ # pinned THEN None
    ELSE Some(StateClone(pinned, handle, data))

\* State::checkout
CheckoutResult(pinned, handle, data, state_hash_) ==
    IF state_hash_ # pinned THEN AssertEqFailed
    ELSE Some(StateClone(pinned, handle, data))

\* State::empty_root
EmptyRootResult == DefaultDigest

\* a commit that returns the root it was called with
StateCommitReturnsPinned(pinned, data, state_hash_, effects) ==
    IF state_hash_ # pinned
    THEN [ret |-> AssertEqFailed, data |-> data, applied |-> 0]
    ELSE LET c == CommitResult(data, effects)
         IN  [ret |-> IF c.ret = Ok THEN OkValue(pinned)
                      ELSE Err([kind |-> "CommitError",
                                commit_error |-> c.ret.error]),
              data |-> c.data, applied |-> c.applied]

\* a commit that fetches from the remote the value of a key it misses, the
\* remote holding a number under every key
StateCommitFetchesMissing(pinned, data, state_hash_, effects) ==
    IF state_hash_ # pinned
    THEN [ret |-> AssertEqFailed, data |-> data, applied |-> 0]
    ELSE LET missing == {effects[i].key : i \in 1..Len(effects)} \ DOMAIN data
             fetched == [key \in missing \cup DOMAIN data |->
                            IF key \in DOMAIN data THEN data[key]
                            ELSE CLInt(0)]
             c == CommitResult(fetched, effects)
         IN  [ret |-> IF c.ret = Ok THEN OkValue(DefaultDigest)
                      ELSE Err([kind |-> "CommitError",
                                commit_error |-> c.ret.error]),
              data |-> c.data, applied |-> c.applied]

\* State::commit
StateCommitResult(pinned, data, state_hash_, effects) ==
    IF state_hash_ # pinned
    THEN [ret |-> AssertEqFailed, data |-> data, applied |-> 0]
    ELSE LET c == CommitResult(data, effects)
         IN  [ret |-> IF c.ret = Ok THEN OkValue(DefaultDigest)
                      ELSE Err([kind |-> "CommitError",
                                commit_error |-> c.ret.error]),
              data |-> c.data, applied |-> c.applied]

\* TrieMerkleProof::new(key, value, VecDeque::new())
TrieMerkleProof(key, value, proof_steps) ==
    [key |-> key, value |-> value, proof_steps |-> proof_steps]

\* a read_with_proof that asks the remote endpoint itself and caches nothing
ReadWithProofBypassesRead(data, key, response) ==
    IF response.tag = "Ok"
    THEN [ret |-> Some(TrieMerkleProof(key, response.stored_value, <<>>)),
          data |-> data, fetched |-> 1]
    ELSE [ret |-> IF response = [tag |-> "ResponseIsRpcError",
                                 code |-> QueryFailedCode]
                  THEN None ELSE ReadError,
          data |-> data, fetched |-> 1]

\* State::read_with_proof
ReadWithProofResult(data, key, response) ==
    LET r == ReadResult(data, key, response)
    IN  [r EXCEPT !.ret = IF r.ret.tag = "Some"
                          THEN Some(TrieMerkleProof(key, r.ret.value, <<>>))
                          ELSE r.ret]

\* the operations whose body is unimplemented!()
TrieOps ==
    {"keys_with_prefix", "get_trie_full", "put_trie", "missing_children",
     "delete_keys"}

\* a trie operation that returns an empty answer
TrieOpReturnsEmpty(op, data) ==
    [ret |-> IF op = "get_trie_full" THEN None ELSE OkValue(<<>>),
     data |-> IF op = "delete_keys" THEN EmptyMap ELSE data]

\* unimplemented!()
TrieOpResult(op, data) == [ret |-> NotImplemented, data |-> data]

\* state.checkout(state_hash)
Checkout(state_hash_) ==
    /\ state_storage.live
    /\ ~Panicked
    /\ ~Blocked
    /\ last' = [op |-> "checkout", state_hash |-> state_hash_,
                ret |-> CheckoutResult(state_hash, state_storage,
                                       HandleData(state_storage), state_hash_)]
    /\ UNCHANGED <<files, dirs, storage, state_hash, state_storage, persisted>>
    /\ UNCHANGED <<bridge, project_dirs, cached>>

\* state.empty_root()
EmptyRoot ==
    /\ state_storage.live
    /\ ~Panicked
    /\ ~Blocked
    /\ last' = [op |-> "empty_root", root |-> EmptyRootResult]
    /\ UNCHANGED <<files, dirs, storage, state_hash, state_storage, persisted>>
    /\ UNCHANGED <<bridge, project_dirs, cached>>

\* state.commit(state_hash, effects)
StateCommit(state_hash_, effects) ==
    /\ state_storage.live
    /\ ~Panicked
    /\ ~Blocked
    /\ LET r == StateCommitResult(state_hash, HandleData(state_storage),
                                  state_hash_, effects)
       IN  /\ BorrowMut(state_storage, r.data)
           /\ last' = [op |-> "state_commit", state_hash |-> state_hash_,
                       effects |-> effects, applied |-> r.applied,
                       ret |-> r.ret]
    /\ UNCHANGED <<files, dirs, state_hash, persisted>>
    /\ UNCHANGED <<bridge, project_dirs, cached>>

\* state.read_with_proof(key)
ReadWithProof(key, response) ==
    /\ state_storage.live
    /\ ~Panicked
    /\ ~Blocked
    /\ LET r == ReadWithProofResult(HandleData(state_storage), key, response)
       IN  /\ BorrowMut(state_storage, r.data)
           /\ last' = [op |-> "read_with_proof", key |-> key,
                       fetched |-> r.fetched, response |-> response,
                       ret |-> r.ret]
    /\ UNCHANGED <<files, dirs, state_hash, persisted>>
    /\ UNCHANGED <<bridge, project_dirs, cached>>

\* one of the trie operations
TrieOp(op) ==
    /\ state_storage.live
    /\ ~Panicked
    /\ ~Blocked
    /\ LET r == TrieOpResult(op, HandleData(state_storage))
       IN  /\ BorrowMut(state_storage, r.data)
           /\ last' = [op |-> op, ret |-> r.ret]
    /\ UNCHANGED <<files, dirs, state_hash, persisted>>
    /\ UNCHANGED <<bridge, project_dirs, cached>>

KeysWithPrefix == TrieOp("keys_with_prefix")
GetTrieFull == TrieOp("get_trie_full")
PutTrie == TrieOp("put_trie")
MissingChildren == TrieOp("missing_children")
DeleteKeys == TrieOp("delete_keys")

\* the Storage and the State on it, the journals of at most one effect; a
\* panic leaves nothing to run but the drops
NextState ==
    \/ \E root_path \in RootPaths, chain_name \in ChainNames,
          state_hash_ \in Digests, create_if_missing \in BOOLEAN,
          io \in IoOutcomes \cup {"read_fails"} :
          StorageNew(root_path, chain_name, state_hash_, create_if_missing, io)
    \/ \E key \in Keys, value \in StoredValues : Insert(key, value)
    \/ \E key \in Keys : Get(key)
    \/ \E order \in Orders(storage.data), io \in IoOutcomes : Persist(order, io)
    \/ \E key \in Keys, response \in RemoteResponses : Read(key, response)
    \/ \E key \in Keys, response \in RemoteResponses :
          ReadWithProof(key, response)
    \/ \E state_hash_ \in RequestedDigests : Checkout(state_hash_)
    \/ EmptyRoot
    \/ \E state_hash_ \in RequestedDigests, effects \in SingleEffectJournals :
          StateCommit(state_hash_, effects)
    \/ KeysWithPrefix
    \/ GetTrieFull
    \/ PutTrie
    \/ MissingChildren
    \/ DeleteKeys
    \/ Drop

SpecState == Init /\ [][NextState]_vars

----------------------------------------------------------------------------
(* State::read step by step: the calling thread, the worker thread it spawns
   and the request, inside a tokio runtime *)

\* the runtimes Handle::current() can find: main builds a current-thread
\* runtime; a caller of the library may be in a multi-thread one
Flavors == {"current_thread", "multi_thread"}

\* The runtime's I/O driver delivers the answer to the worker's future. In a
\* multi-thread runtime the runtime's own threads turn the driver. In a
\* current-thread runtime only the thread inside Runtime::block_on turns it,
\* between two polls of its future: never while that thread is inside
\* join_handle.join().
DriverRuns ==
    \/ bridge.runtime = "multi_thread"
    \/ bridge.runtime = "current_thread" /\ ~Blocked

\* tokio::runtime::Builder::...build(): the process gets its runtime
BuildRuntime(flavor) ==
    /\ bridge.runtime = "none"
    /\ ~storage.live
    /\ bridge' = IdleBridge(flavor)
    /\ last' = [op |-> "build_runtime", flavor |-> flavor]
    /\ UNCHANGED <<files, dirs, storage, state_hash, state_storage, persisted,
                   project_dirs, cached>>

\* state.read(key) is called: a hit returns at once; a miss spawns the
\* worker and goes on to join_handle.join()
ReadCall(key) ==
    /\ state_storage.live
    /\ ~Panicked
    /\ ~Blocked
    /\ bridge.runtime # "none"
    /\ IF GetResult(HandleData(state_storage), key) # None
       THEN /\ last' = [op |-> "read", key |-> key, fetched |-> 0,
                        response |-> NoResponse,
                        ret |-> GetResult(HandleData(state_storage), key)]
            /\ bridge' = bridge
       ELSE /\ last' = [op |-> "read_call", key |-> key]
            /\ bridge' = [bridge EXCEPT !.caller = "joining", !.key = key,
                                        !.worker = "spawned",
                                        !.request = "none", !.requests = 0,
                                        !.response = NoResponse]
    /\ UNCHANGED <<files, dirs, storage, state_hash, state_storage, persisted,
                   project_dirs, cached>>

\* the worker enters handle.block_on and its future sends the query
WorkerRequest ==
    /\ bridge.worker = "spawned"
    /\ bridge' = [bridge EXCEPT !.worker = "waiting", !.request = "sent",
                                !.requests = @ + 1]
    /\ UNCHANGED <<files, dirs, storage, state_hash, state_storage, persisted,
                   project_dirs, cached, last>>

\* the remote endpoint answers the query
RemoteAnswer(response) ==
    /\ bridge.request = "sent"
    /\ bridge' = [bridge EXCEPT !.request = "answered",
                                !.response = response]
    /\ UNCHANGED <<files, dirs, storage, state_hash, state_storage, persisted,
                   project_dirs, cached, last>>

\* the I/O driver hands the answer to the worker's future, which completes
DriverTurn ==
    /\ bridge.worker = "waiting"
    /\ bridge.request = "answered"
    /\ DriverRuns
    /\ bridge' = [bridge EXCEPT !.worker = "ready"]
    /\ UNCHANGED <<files, dirs, storage, state_hash, state_storage, persisted,
                   project_dirs, cached, last>>

\* handle.block_on returns and the worker thread ends with the result
WorkerFinish ==
    /\ bridge.worker = "ready"
    /\ bridge' = [bridge EXCEPT !.worker = "finished"]
    /\ UNCHANGED <<files, dirs, storage, state_hash, state_storage, persisted,
                   project_dirs, cached, last>>

\* a join that does not wait for the worker and reports a failure
JoinWithoutWaiting ==
    /\ Blocked
    /\ last' = [op |-> "read", key |-> bridge.key,
                fetched |-> bridge.requests, response |-> bridge.response,
                ret |-> ReadError]
    /\ bridge' = [bridge EXCEPT !.caller = "running"]
    /\ UNCHANGED <<files, dirs, storage, state_hash, state_storage, persisted,
                   project_dirs, cached>>

\* join_handle.join() returns the worker's result and read goes on with it
JoinReturn ==
    /\ Blocked
    /\ bridge.worker = "finished"
    /\ LET r == ReadResult(HandleData(state_storage), bridge.key,
                           bridge.response)
       IN  /\ BorrowMut(state_storage, r.data)
           /\ last' = [op |-> "read", key |-> bridge.key,
                       fetched |-> bridge.requests,
                       response |-> bridge.response, ret |-> r.ret]
    /\ bridge' = IdleBridge(bridge.runtime)
    /\ UNCHANGED <<files, dirs, state_hash, persisted, project_dirs, cached>>

\* the Storage, the State on it and the reads of the engine, step by step
NextBridge ==
    \/ \E flavor \in Flavors : BuildRuntime(flavor)
    \/ \E root_path \in RootPaths, chain_name \in ChainNames,
          state_hash_ \in Digests, create_if_missing \in BOOLEAN,
          io \in IoOutcomes \cup {"read_fails"} :
          StorageNew(root_path, chain_name, state_hash_, create_if_missing, io)
    \/ \E key \in Keys, value \in StoredValues : Insert(key, value)
    \/ \E key \in Keys : Get(key)
    \/ \E key \in Keys : ReadCall(key)
    \/ WorkerRequest
    \/ \E response \in RemoteResponses : RemoteAnswer(response)
    \/ DriverTurn
    \/ WorkerFinish
    \/ JoinReturn
    \/ Drop

SpecBridge == Init /\ [][NextBridge]_vars

\* the threads are scheduled, the driver turns whenever it can, and the
\* remote endpoint answers every query
BridgeFairness ==
    /\ WF_vars(WorkerRequest)
    /\ WF_vars(\E response \in RemoteResponses : RemoteAnswer(response))
    /\ WF_vars(DriverTurn)
    /\ WF_vars(WorkerFinish)
    /\ WF_vars(JoinReturn)

SpecBridgeFair == SpecBridge /\ BridgeFairness

----------------------------------------------------------------------------
(* Stores of several identities in one root directory *)

\* the network names and state roots of the stores opened in the directory;
\* DigestA and DigestB differ after their first ShortHashLen digits
SnapshotChainNames == ChainNames \cup {"dev"}
SnapshotDigests == Digests \cup {DigestB}

NextSnapshots ==
    \/ \E root_path \in RootPaths, chain_name \in SnapshotChainNames,
          state_hash_ \in SnapshotDigests, create_if_missing \in BOOLEAN :
          StorageNew(root_path, chain_name, state_hash_, create_if_missing,
                     "ok")
    \/ \E value \in StoredValues : Insert(KeySeq[1], value)
    \/ Get(KeySeq[1])
    \/ \E order \in Orders(storage.data) : Persist(order, "ok")
    \/ Drop

SpecSnapshots == Init /\ [][NextSnapshots]_vars

----------------------------------------------------------------------------
(* The command line: cargo casper exec, show and clean; the cached config  *)
(* Every action is one run of the program, from its start to its exit.     *)

\* env::temp_dir().join("cargo-casper")
TempCrateDir == "tmp/cargo-casper"
\* CachedConfig::path().parent(): ProjectDirs::config_dir, or the fall-back
ConfigDir == IF project_dirs THEN "config_dir" ELSE TempCrateDir
\* CachedConfig::path()
CachedConfigPath == [dir |-> ConfigDir, file |-> <<"config.toml">>]
\* default_storage_dir(): ProjectDirs::data_dir, or the fall-back
default_storage_dir == IF project_dirs THEN "data_dir" ELSE TempCrateDir

\* ARG_DEFAULT of --chain-name and of --node-address
DefaultChainName == "casper-net-1"
DefaultNodeAddress == "http://localhost:11101"

\* the values the four cached options take in the model
StorageDirSeq == <<"storage_dir", "data_dir", TempCrateDir>>
ChainNameSeq == <<"net", DefaultChainName>>
NodeAddressSeq == <<"node", DefaultNodeAddress>>
DigestSeq == <<DigestA, DigestB>>

IndexOf(seq, x) == CHOOSE i \in 1..Len(seq) : seq[i] = x

\* struct CachedConfig
CachedConfig(storage_dir, chain_name, node_address, state_hash_) ==
    [storage_dir |-> storage_dir, chain_name |-> chain_name,
     node_address |-> node_address, state_hash |-> state_hash_]

\* toml::to_string_pretty(&self): the four fields in declaration order, each
\* file byte standing for one field's text
TomlEncode(config) ==
    <<IndexOf(StorageDirSeq, config.storage_dir),
      IndexOf(ChainNameSeq, config.chain_name),
      IndexOf(NodeAddressSeq, config.node_address),
      IndexOf(DigestSeq, config.state_hash)>>

\* toml::from_str(&encoded): every field must be there and must parse
TomlDecode(encoded) ==
    IF /\ Len(encoded) = 4
       /\ encoded[1] \in 1..Len(StorageDirSeq)
       /\ encoded[2] \in 1..Len(ChainNameSeq)
       /\ encoded[3] \in 1..Len(NodeAddressSeq)
       /\ encoded[4] \in 1..Len(DigestSeq)
    THEN [ok |-> TRUE,
          config |-> CachedConfig(StorageDirSeq[encoded[1]],
                                  ChainNameSeq[encoded[2]],
                                  NodeAddressSeq[encoded[3]],
                                  DigestSeq[encoded[4]])]
    ELSE [ok |-> FALSE,
          config |-> CachedConfig("", "", "", NoDigest)]

\* CachedConfig::try_read
TryRead(files_, io) ==
    IF CachedConfigPath \notin DOMAIN files_ THEN OkValue(None)
    ELSE IF io = "read_fails" THEN
        Err([kind |-> "Read", path |-> CachedConfigPath])
    ELSE LET decoded == TomlDecode(files_[CachedConfigPath])
         IN  IF decoded.ok THEN OkValue(Some(decoded.config))
             ELSE Err([kind |-> "Decode", path |-> CachedConfigPath])

\* CachedConfig::write
CachedConfigWrite(files_, dirs_, config, io) ==
    IF ConfigDir \notin dirs_ /\ io = "create_dir_fails" THEN
        [ret |-> Err([kind |-> "CreateDir", path |-> Parent(CachedConfigPath)]),
         files |-> files_, dirs |-> dirs_]
    ELSE IF io = "write_denied" THEN
        [ret |-> Err([kind |-> "Write", path |-> CachedConfigPath]),
         files |-> files_, dirs |-> dirs_ \cup {ConfigDir}]
    ELSE IF io = "write_partial" THEN
        [ret |-> Err([kind |-> "Write", path |-> CachedConfigPath]),
         files |-> (CachedConfigPath :> <<>>) @@ files_,
         dirs |-> dirs_ \cup {ConfigDir}]
    ELSE
        [ret |-> Ok,
         files |-> (CachedConfigPath :> TomlEncode(config)) @@ files_,
         dirs |-> dirs_ \cup {ConfigDir}]

\* enum UserProvidedOrDefault and its value()
User(value) == [by |-> "User", value |-> value]
Default(value) == [by |-> "Default", value |-> value]
\* enum SnapshotId (a block is asked of the node just as the latest is)
Latest == [id |-> "Latest"]
StateHash(state_hash_) == [id |-> "StateHash", state_hash |-> state_hash_]

\* what casper_client::get_state_root_hash can hand back
StateRootHashResponses ==
    {[tag |-> "Ok", state_root_hash |-> Some(DigestA)],
     [tag |-> "Ok", state_root_hash |-> None],
     [tag |-> "Err", error |-> "FailedToGetResponse"]}

\* get_state_root_hash(node_address, snapshot_id, runtime)
GetStateRootHash(node_address, snapshot_id, response) ==
    IF snapshot_id.id = "StateHash" THEN
        [ret |-> OkValue(snapshot_id.state_hash), asked |-> ""]
    ELSE IF response.tag = "Err" THEN
        [ret |-> Err([kind |-> "FailedToGetStateHash",
                      client_error |-> response.error]),
         asked |-> node_address]
    ELSE IF response.state_root_hash.tag = "None" THEN
        [ret |-> Err([kind |-> "UnknownStateHash"]), asked |-> node_address]
    ELSE [ret |-> OkValue(response.state_root_hash.value),
          asked |-> node_address]

\* an option resolution that lets the defaults of this run override the
\* cached values
CachedConfigDefaultsWin(read, options, response) ==
    LET node_address == options.node_address.value
        h == GetStateRootHash(node_address, options.snapshot_id.value,
                              response)
    IN  [ret |-> IF h.ret.tag = "Ok"
                 THEN OkValue(CachedConfig(options.storage_dir.value,
                                           options.chain_name.value,
                                           node_address, h.ret.value))
                 ELSE h.ret,
         asked |-> h.asked]

\* Options::run, `let cached_config = match CachedConfig::try_read()?`: the
\* options this run uses, from what was read, the command line, the node
cached_config(read, options, response) ==
    IF read.tag = "Some" THEN
        LET config == read.value
            storage_dir == IF options.storage_dir.by = "User"
                           THEN options.storage_dir.value
                           ELSE config.storage_dir
            chain_name == IF options.chain_name.by = "User"
                          THEN options.chain_name.value
                          ELSE config.chain_name
            node_address == IF options.node_address.by = "User"
                            THEN options.node_address.value
                            ELSE config.node_address
        IN  IF options.snapshot_id.by = "User" THEN
                LET h == GetStateRootHash(node_address,
                                          options.snapshot_id.value, response)
                IN  [ret |-> IF h.ret.tag = "Ok"
                             THEN OkValue(CachedConfig(storage_dir, chain_name,
                                                       node_address,
                                                       h.ret.value))
                             ELSE h.ret,
                     asked |-> h.asked]
            ELSE [ret |-> OkValue(CachedConfig(storage_dir, chain_name,
                                               node_address,
                                               config.state_hash)),
                  asked |-> ""]
    ELSE
        LET node_address == options.node_address.value
            h == GetStateRootHash(node_address, options.snapshot_id.value,
                                  response)
        IN  [ret |-> IF h.ret.tag = "Ok"
                     THEN OkValue(CachedConfig(options.storage_dir.value,
                                               options.chain_name.value,
                                               node_address, h.ret.value))
                     ELSE h.ret,
             asked |-> h.asked]

\* what casper_client::get_chainspec can hand back: the chainspec's bytes
\* (TOML, or text that is not a chainspec, or bytes that are not UTF-8)
ChainspecResponses ==
    {[tag |-> "Ok", chainspec_bytes |-> b] : b \in {"toml", "text", "binary"}}
    \cup {[tag |-> "Err", error |-> "FailedToGetResponse"]}

\* get_chainspec(node_address, runtime)
GetChainspec(response) ==
    IF response.tag = "Err" THEN
        Err([kind |-> "FailedToGetStateHash", client_error |-> response.error])
    ELSE IF response.chainspec_bytes = "binary" THEN
        Err([kind |-> "ChainspecBytesToStr"])
    ELSE IF response.chainspec_bytes = "text" THEN
        Err([kind |-> "ChainspecDeserialization"])
    ELSE Ok

\* the transaction file: readable and compliant, unreadable, or not
\* compliant with the chain's configuration
TransactionFiles == {"ok", "unreadable", "not_compliant"}

\* what the execution engine does with the State it is given: the keys it
\* reads (with the node's answer to each query), the result of run_execute
\* and the effects of the execution result
Fetched(key, value) == <<key, [tag |-> "Ok", stored_value |-> value]>>
Unanswered(key) == <<key, [tag |-> "FailedToGetResponse"]>>
EngineRun(reads, execute, effects) ==
    [reads |-> reads, execute |-> execute, effects |-> effects]
EngineRuns ==
    {EngineRun(<<>>, "ok", <<>>),
     EngineRun(<<Fetched("k1", CLInt(1))>>, "ok",
               <<[key |-> "k1", kind |-> AddInt(1)]>>),
     EngineRun(<<Fetched("k1", CLInt(1))>>, "ok",
               <<[key |-> "k1", kind |-> Write(CLString)],
                 [key |-> "k2", kind |-> AddInt(1)]>>),
     EngineRun(<<Fetched("k1", CLInt(1))>>, "RootNotFound", <<>>),
     EngineRun(<<Unanswered("k1")>>, "Exec", <<>>)}

\* the State::read calls of one run_execute, in order
RECURSIVE EngineReads(_, _)
EngineReads(data, reads) ==
    IF reads = <<>> THEN data
    ELSE EngineReads(ReadResult(data, Head(reads)[1], Head(reads)[2]).data,
                     Tail(reads))

\* the iteration order of the map when it is serialized
OrderOf(data, direction) ==
    LET forward == SelectSeq(KeySeq, LAMBDA key : key \in DOMAIN data)
    IN  IF direction = "forward" THEN forward ELSE Reverse(forward)

\* what a run that returned at `stage` hands back
Returned(ret, stage, files_, dirs_, opened, data) ==
    [ret |-> ret, stage |-> stage, files |-> files_, dirs |-> dirs_,
     opened |-> opened, data |-> data]

\* a run that writes the snapshot before looking at what apply_effects
\* returned
ExecutePersistsFirst(files_, dirs_, config, env) ==
    LET new == StorageNewResult(files_, dirs_, config.storage_dir,
                                config.chain_name, config.state_hash, TRUE,
                                env.storage_new)
        read_data == EngineReads(new.storage.data, env.engine.reads)
        committed == StateCommitResult(config.state_hash, read_data,
                                       config.state_hash, env.engine.effects)
        p == PersistResult(new.files, new.dirs, new.storage.path,
                           committed.data,
                           OrderOf(committed.data, env.order), env.persist)
    IN  IF new.ret # Ok THEN
            Returned(Err([kind |-> "Storage",
                          storage_error |-> new.ret.error]),
                     "Storage::new", new.files, new.dirs, new.files, EmptyMap)
        ELSE IF env.engine.execute # "ok" THEN
            Returned(Err([kind |-> "Execution",
                          engine_error |-> env.engine.execute]),
                     "run_execute", new.files, new.dirs, new.files, read_data)
        ELSE IF committed.ret.tag # "Ok" THEN
            Returned(Err([kind |-> "Commit",
                          engine_error |-> committed.ret.error]),
                     "apply_effects", p.files, p.dirs, new.files,
                     committed.data)
        ELSE Returned(IF p.ret = Ok THEN Ok
                      ELSE Err([kind |-> "Storage",
                                storage_error |-> p.ret.error]),
                      "persist", p.files, p.dirs, new.files, committed.data)

\* Options::run from "Construct the EE" on: Storage::new, State::new,
\* run_execute, apply_effects, storage.persist
Execute(files_, dirs_, config, env) ==
    LET new == StorageNewResult(files_, dirs_, config.storage_dir,
                                config.chain_name, config.state_hash, TRUE,
                                env.storage_new)
        read_data == EngineReads(new.storage.data, env.engine.reads)
        committed == StateCommitResult(config.state_hash, read_data,
                                       config.state_hash, env.engine.effects)
        p == PersistResult(new.files, new.dirs, new.storage.path,
                           committed.data,
                           OrderOf(committed.data, env.order), env.persist)
    IN  IF new.ret # Ok THEN
            Returned(Err([kind |-> "Storage",
                          storage_error |-> new.ret.error]),
                     "Storage::new", new.files, new.dirs, new.files, EmptyMap)
        ELSE IF env.engine.execute # "ok" THEN
            Returned(Err([kind |-> "Execution",
                          engine_error |-> env.engine.execute]),
                     "run_execute", new.files, new.dirs, new.files, read_data)
        ELSE IF committed.ret.tag # "Ok" THEN
            Returned(Err([kind |-> "Commit",
                          engine_error |-> committed.ret.error]),
                     "apply_effects", new.files, new.dirs, new.files,
                     committed.data)
        ELSE Returned(IF p.ret = Ok THEN Ok
                      ELSE Err([kind |-> "Storage",
                                storage_error |-> p.ret.error]),
                      "persist", p.files, p.dirs, new.files, committed.data)

\* Options::run of the exec subcommand
ExecRunResult(files_, dirs_, options, env) ==
    LET read == TryRead(files_, env.try_read)
        resolved == cached_config(read.value, options, env.state_root_hash)
        config == resolved.ret.value
        w == CachedConfigWrite(files_, dirs_, config, env.write)
        chainspec == GetChainspec(env.chainspec)
        stopped(ret, stage, files2, dirs2) ==
            Returned(ret, stage, files2, dirs2, files2, EmptyMap)
    IN  IF read.tag = "Err" THEN
            [run |-> stopped(Err([kind |-> "CachedConfig",
                                  cached_config_error |-> read.error]),
                             "try_read", files_, dirs_),
             read |-> None, used |-> None, asked |-> ""]
        ELSE IF resolved.ret.tag = "Err" THEN
            [run |-> stopped(resolved.ret, "get_state_root_hash",
                             files_, dirs_),
             read |-> read.value, used |-> None, asked |-> resolved.asked]
        ELSE IF w.ret # Ok THEN
            [run |-> stopped(Err([kind |-> "CachedConfig",
                                  cached_config_error |-> w.ret.error]),
                             "write", w.files, w.dirs),
             read |-> read.value, used |-> Some(config),
             asked |-> resolved.asked]
        ELSE IF chainspec # Ok THEN
            [run |-> stopped(chainspec, "get_chainspec", w.files, w.dirs),
             read |-> read.value, used |-> Some(config),
             asked |-> resolved.asked]
        ELSE IF env.transaction = "unreadable" THEN
            [run |-> stopped(Err([kind |-> "ReadTransaction"]),
                             "read_deploy_file", w.files, w.dirs),
             read |-> read.value, used |-> Some(config),
             asked |-> resolved.asked]
        ELSE IF env.transaction = "not_compliant" THEN
            [run |-> stopped(Err([kind |-> "InvalidTransaction"]),
                             "is_config_compliant", w.files, w.dirs),
             read |-> read.value, used |-> Some(config),
             asked |-> resolved.asked]
        ELSE [run |-> Execute(w.files, w.dirs, config, env),
              read |-> read.value, used |-> Some(config),
              asked |-> resolved.asked]

\* println!("value not found.")
ValueNotFound == [tag |-> "value not found."]

\* show_value(key) opening the store with create_if_missing = true
ShowValueCreates(files_, dirs_, key, try_read, storage_new) ==
    LET read == TryRead(files_, try_read)
        config == read.value.value
        new == StorageNewResult(files_, dirs_, config.storage_dir,
                                config.chain_name, config.state_hash, TRUE,
                                storage_new)
        found == GetResult(new.storage.data, key)
    IN  IF read.tag = "Err" THEN
            [ret |-> Err([kind |-> "CachedConfig",
                          cached_config_error |-> read.error]),
             files |-> files_, dirs |-> dirs_, output |-> None]
        ELSE IF read.value.tag = "None" THEN
            [ret |-> Err([kind |-> "MissingCachedConfig"]),
             files |-> files_, dirs |-> dirs_, output |-> None]
        ELSE IF new.ret # Ok THEN
            [ret |-> Err([kind |-> "Storage",
                          storage_error |-> new.ret.error]),
             files |-> new.files, dirs |-> new.dirs, output |-> None]
        ELSE [ret |-> Ok, files |-> new.files, dirs |-> new.dirs,
              output |-> IF found.tag = "Some" THEN Some(found.value)
                         ELSE ValueNotFound]

\* show_value(key)
ShowValueResult(files_, dirs_, key, try_read, storage_new) ==
    LET read == TryRead(files_, try_read)
        config == read.value.value
        new == StorageNewResult(files_, dirs_, config.storage_dir,
                                config.chain_name, config.state_hash, FALSE,
                                storage_new)
        found == GetResult(new.storage.data, key)
    IN  IF read.tag = "Err" THEN
            [ret |-> Err([kind |-> "CachedConfig",
                          cached_config_error |-> read.error]),
             files |-> files_, dirs |-> dirs_, output |-> None]
        ELSE IF read.value.tag = "None" THEN
            [ret |-> Err([kind |-> "MissingCachedConfig"]),
             files |-> files_, dirs |-> dirs_, output |-> None]
        ELSE IF new.ret # Ok THEN
            [ret |-> Err([kind |-> "Storage",
                          storage_error |-> new.ret.error]),
             files |-> new.files, dirs |-> new.dirs, output |-> None]
        ELSE [ret |-> Ok, files |-> new.files, dirs |-> new.dirs,
              output |-> IF found.tag = "Some" THEN Some(found.value)
                         ELSE ValueNotFound]

\* show_all_state()
ShowAllStateResult(files_, dirs_, try_read, storage_new) ==
    LET read == TryRead(files_, try_read)
        config == read.value.value
        new == StorageNewResult(files_, dirs_, config.storage_dir,
                                config.chain_name, config.state_hash, FALSE,
                                storage_new)
    IN  IF read.tag = "Err" THEN
            [ret |-> Err([kind |-> "CachedConfig",
                          cached_config_error |-> read.error]),
             files |-> files_, dirs |-> dirs_, output |-> None]
        ELSE IF read.value.tag = "None" THEN
            [ret |-> Err([kind |-> "MissingCachedConfig"]),
             files |-> files_, dirs |-> dirs_, output |-> None]
        ELSE IF new.ret # Ok THEN
            [ret |-> Err([kind |-> "Storage",
                          storage_error |-> new.ret.error]),
             files |-> new.files, dirs |-> new.dirs, output |-> None]
        ELSE [ret |-> Ok, files |-> new.files, dirs |-> new.dirs,
              output |-> Some(new.storage.data)]

\* show_cached_config()
ShowCachedConfigResult(files_, dirs_, try_read) ==
    LET read == TryRead(files_, try_read)
    IN  IF read.tag = "Err" THEN
            [ret |-> Err([kind |-> "CachedConfig",
                          cached_config_error |-> read.error]),
             files |-> files_, dirs |-> dirs_, output |-> None]
        ELSE [ret |-> Ok, files |-> files_, dirs |-> dirs_,
              output |-> Some(read.value)]

\* fs::remove_dir_all(dir): the directory and every file under it
RemoveDirAll(files_, dir) ==
    [p \in {q \in DOMAIN files_ : q.dir # dir} |-> files_[p]]

\* subcommands::clean::run
CleanResult(files_, dirs_, try_read, remove_dir) ==
    LET read == TryRead(files_, try_read)
        dir == read.value.value.storage_dir
    IN  IF read.tag = "Err" THEN
            [ret |-> Err([kind |-> "CachedConfig",
                          cached_config_error |-> read.error]),
             files |-> files_, dirs |-> dirs_]
        ELSE IF read.value.tag = "None" THEN
            [ret |-> Err([kind |-> "MissingCachedConfig"]),
             files |-> files_, dirs |-> dirs_]
        ELSE IF dir \notin dirs_ THEN
            [ret |-> Ok, files |-> files_, dirs |-> dirs_]
        ELSE IF remove_dir = "remove_fails" THEN
            [ret |-> Err([kind |-> "RemoveDir", path |-> dir]),
             files |-> files_, dirs |-> dirs_]
        ELSE [ret |-> Ok, files |-> RemoveDirAll(files_, dir),
              dirs |-> dirs_ \ {dir}]

\* history: what the run that turned the files from files_ into files2 left
\* in the snapshot files it wrote, for a store of the given identity
SnapshotsWritten(files_, files2, chain_name, state_hash_) ==
    LET snapshots == {p \in DOMAIN files2 : p # CachedConfigPath}
        written == {p \in snapshots :
                       p \notin DOMAIN files_ \/ files2[p] # files_[p]}
    IN  [p \in (DOMAIN persisted \cap snapshots) \cup written |->
            IF p \in written
            THEN [ok |-> Deserialize(files2[p]).ok,
                  data |-> Deserialize(files2[p]).data,
                  owner |-> <<chain_name, state_hash_>>]
            ELSE persisted[p]]

\* one run of `cargo casper exec`
ExecRun(options, env) ==
    /\ ~storage.live
    /\ ~Blocked
    /\ \E r \in {ExecRunResult(files, dirs, options, env)} :
           /\ files' = r.run.files
           /\ dirs' = r.run.dirs
           /\ cached' = IF r.used.tag = "Some" /\ r.run.stage # "write"
                        THEN r.used
                        ELSE IF r.run.files # files THEN None ELSE cached
           /\ persisted' = IF r.used.tag = "Some"
                           THEN SnapshotsWritten(files, r.run.files,
                                                 r.used.value.chain_name,
                                                 r.used.value.state_hash)
                           ELSE persisted
           /\ last' = [op |-> "exec", options |-> options, env |-> env,
                       ret |-> r.run.ret, stage |-> r.run.stage,
                       read |-> r.read, used |-> r.used, asked |-> r.asked,
                       opened |-> r.run.opened, data |-> r.run.data]
    /\ UNCHANGED <<storage, state_hash, state_storage, bridge, project_dirs>>

\* one run of `cargo casper show value <key>`
ShowValue(key, try_read, storage_new) ==
    /\ ~storage.live
    /\ ~Blocked
    /\ \E r \in {ShowValueResult(files, dirs, key, try_read, storage_new)} :
           /\ files' = r.files
           /\ dirs' = r.dirs
           /\ last' = [op |-> "show_value", key |-> key, ret |-> r.ret,
                       output |-> r.output]
    /\ UNCHANGED <<storage, state_hash, state_storage, persisted, bridge,
                   project_dirs, cached>>

\* one run of `cargo casper show all-state`
ShowAllState(try_read, storage_new) ==
    /\ ~storage.live
    /\ ~Blocked
    /\ \E r \in {ShowAllStateResult(files, dirs, try_read, storage_new)} :
           /\ files' = r.files
           /\ dirs' = r.dirs
           /\ last' = [op |-> "show_all_state", ret |-> r.ret,
                       output |-> r.output]
    /\ UNCHANGED <<storage, state_hash, state_storage, persisted, bridge,
                   project_dirs, cached>>

\* one run of `cargo casper show cached-config`
ShowCachedConfig(try_read) ==
    /\ ~storage.live
    /\ ~Blocked
    /\ \E r \in {ShowCachedConfigResult(files, dirs, try_read)} :
           /\ files' = r.files
           /\ dirs' = r.dirs
           /\ last' = [op |-> "show_cached_config", ret |-> r.ret,
                       output |-> r.output]
    /\ UNCHANGED <<storage, state_hash, state_storage, persisted, bridge,
                   project_dirs, cached>>

\* one run of `cargo casper clean`
Clean(try_read, remove_dir) ==
    /\ ~storage.live
    /\ ~Blocked
    /\ \E r \in {CleanResult(files, dirs, try_read, remove_dir)} :
           /\ files' = r.files
           /\ dirs' = r.dirs
           /\ persisted' = [p \in DOMAIN persisted \cap DOMAIN r.files |->
                               persisted[p]]
           /\ last' = [op |-> "clean", ret |-> r.ret,
                       read |-> TryRead(files, try_read)]
    /\ UNCHANGED <<storage, state_hash, state_storage, bridge, project_dirs,
                   cached>>

\* the command lines of exec: each option given by the user or left out
ExecOptions ==
    [storage_dir : {User("storage_dir"), Default(default_storage_dir)},
     chain_name : {User("net"), Default(DefaultChainName)},
     node_address : {User("node"), Default(DefaultNodeAddress)},
     snapshot_id : {User(Latest), User(StateHash(DigestB)), Default(Latest)}]

\* a run in which every call to the file system and the network succeeds
\* and the engine reads and changes nothing
Nominal ==
    [try_read |-> "ok",
     state_root_hash |-> [tag |-> "Ok", state_root_hash |-> Some(DigestA)],
     write |-> "ok",
     chainspec |-> [tag |-> "Ok", chainspec_bytes |-> "toml"],
     transaction |-> "ok",
     storage_new |-> "ok",
     engine |-> EngineRun(<<>>, "ok", <<>>),
     persist |-> "ok",
     order |-> "forward"]

\* the runs that differ from the nominal one in the answer about the state
\* root hash
StateRootHashEnvs ==
    {[Nominal EXCEPT !.state_root_hash = r] : r \in StateRootHashResponses}

\* the runs that differ from the nominal one in one respect
Environments ==
    StateRootHashEnvs
    \cup {[Nominal EXCEPT !.try_read = "read_fails"]}
    \cup {[Nominal EXCEPT !.write = io] : io \in IoOutcomes}
    \cup {[Nominal EXCEPT !.chainspec = r] : r \in ChainspecResponses}
    \cup {[Nominal EXCEPT !.transaction = t] : t \in TransactionFiles}
    \cup {[Nominal EXCEPT !.storage_new = io] :
             io \in IoOutcomes \cup {"read_fails"}}
    \cup {[Nominal EXCEPT !.engine = e] : e \in EngineRuns}
    \cup {[Nominal EXCEPT !.persist = io, !.order = "reverse"] :
             io \in IoOutcomes}

\* the state before the first run, in either environment
InitCli ==
    /\ files = [p \in {} |-> <<>>]
    /\ dirs = {}
    /\ storage = NullStorage
    /\ state_hash = NoDigest
    /\ state_storage = NullHandle
    /\ bridge = IdleBridge("none")
    /\ project_dirs \in BOOLEAN
    /\ cached = None
    /\ persisted = [p \in {} |-> [ok |-> FALSE, data |-> EmptyMap]]
    /\ last = [op |-> "init"]

\* runs of exec alone
NextExec ==
    \E options \in ExecOptions, env \in StateRootHashEnvs :
        ExecRun(options, env)

SpecExec == InitCli /\ [][NextExec]_vars

\* the command lines of exec that leave the network and the node as cached
CliOptions ==
    {o \in ExecOptions : /\ o.chain_name.by = "Default"
                         /\ o.node_address.by = "Default"
                         /\ o.snapshot_id # User(Latest)}

\* the command lines of exec that name a state hash or nothing at all
RunOptions == {o \in CliOptions : o.storage_dir.by = "Default"}

\* runs of exec in every environment
NextRun ==
    \E options \in RunOptions, env \in Environments : ExecRun(options, env)

SpecRun == InitCli /\ [][NextRun]_vars

\* the runs of exec between those of show and clean: the nominal one, and
\* those in which the engine reads and changes something
CliEnvironments ==
    {[Nominal EXCEPT !.engine = e] : e \in {r \in EngineRuns : r.execute = "ok"}}

\* runs of exec, show and clean in any order
NextCli ==
    \/ \E options \in CliOptions, env \in CliEnvironments :
          ExecRun(options, env)
    \/ \E key \in Keys, try_read \in {"ok", "read_fails"},
          storage_new \in {"ok", "read_fails"} :
          ShowValue(key, try_read, storage_new)
    \/ \E try_read \in {"ok", "read_fails"},
          storage_new \in {"ok", "read_fails"} :
          ShowAllState(try_read, storage_new)
    \/ \E try_read \in {"ok", "read_fails"} : ShowCachedConfig(try_read)
    \/ \E try_read \in {"ok", "read_fails"},
          remove_dir \in {"ok", "remove_fails"} : Clean(try_read, remove_dir)

SpecCli == InitCli /\ [][NextCli]_vars

----------------------------------------------------------------------------
(* Properties of Storage::new and Storage::persist *)

\* C1: a store opened on an existing snapshot file whose last write was a
\* successful persist of the mapping M holds exactly M, whatever
\* create_if_missing is: the open succeeds (unless the file cannot be read)
\* and the file is loaded, never reset to empty.
C1_RoundTrip ==
    (last.op = "new" /\ last.existed /\ persisted[last.path].ok) =>
        /\ last.io # "read_fails" => last.ret = Ok
        /\ last.ret = Ok =>
            /\ storage.live
            /\ storage.path = last.path
            /\ storage.data = persisted[last.path].data

C1_Witness ==
    /\ last.op = "new"
    /\ last.existed
    /\ last.ret = Ok
    /\ persisted[last.path].ok
    /\ DOMAIN storage.data = Keys
    /\ storage.data["k1"] # storage.data["k2"]

----------------------------------------------------------------------------
(* Properties of State::read *)

\* the entries the store held before a step are still there, unchanged
EntriesKept ==
    \A k \in DOMAIN storage.data :
        k \in DOMAIN storage'.data /\ storage'.data[k] = storage.data[k]

\* C2: a read of a key the store lacks, answered by the remote with value v,
\* returns v and inserts (key, v) and nothing else; a read never removes or
\* changes an entry; and a read of the same key that follows a read which
\* returned v returns v again from the store, without asking the remote,
\* whatever the remote would answer (a failure included).
C2_ReadThroughCaching ==
    [][last'.op = "read" =>
        /\ (last'.key \notin DOMAIN storage.data /\ last'.response.tag = "Ok") =>
            /\ last'.ret = Some(last'.response.stored_value)
            /\ last'.fetched = 1
            /\ DOMAIN storage'.data = DOMAIN storage.data \cup {last'.key}
            /\ storage'.data[last'.key] = last'.response.stored_value
        /\ EntriesKept
        /\ (last.op = "read" /\ last.key = last'.key /\ last.ret.tag = "Some") =>
            /\ last'.ret = last.ret
            /\ last'.fetched = 0
            /\ storage' = storage
    ]_vars

C2_Witness ==
    /\ last.op = "read"
    /\ last.fetched = 1
    /\ last.response.tag = "Ok"
    /\ last.ret = Some(last.response.stored_value)
    /\ storage.data[last.key] = last.response.stored_value

\* C3: a read of a key the store holds returns the stored value, asks the
\* remote nothing and changes nothing, also when the remote would answer
\* with another value.
C3_LocalPreferred ==
    [][(last'.op = "read" /\ last'.key \in DOMAIN storage.data) =>
        /\ last'.ret = Some(storage.data[last'.key])
        /\ last'.fetched = 0
        /\ storage' = storage
        /\ files' = files
    ]_vars

C3_Witness ==
    /\ last.op = "read"
    /\ last.fetched = 0
    /\ last.response.tag = "Ok"
    /\ last.ret.tag = "Some"
    /\ last.ret.value # last.response.stored_value
    /\ storage.data[last.key] = last.ret.value

NotFoundResponse == [tag |-> "ResponseIsRpcError", code |-> QueryFailedCode]

\* C4: a read of a key the store lacks, answered "not found" by the remote,
\* returns Ok(None) and leaves the store as it was, without an entry for
\* the key.
C4_NotFoundPassthrough ==
    [][(/\ last'.op = "read"
        /\ last'.key \notin DOMAIN storage.data
        /\ last'.response = NotFoundResponse) =>
        /\ last'.ret = None
        /\ storage' = storage
        /\ last'.key \notin DOMAIN storage'.data
    ]_vars

C4_Witness ==
    /\ last.op = "read"
    /\ last.fetched = 1
    /\ last.response = NotFoundResponse
    /\ last.ret = None
    /\ last.key \notin DOMAIN storage.data

\* C5: a read of a key the store lacks whose remote fetch fails otherwise
\* than with "not found" returns an error, which is not the Ok(None) of not
\* found, and leaves the store as it was.
C5_RemoteFailure ==
    [][(/\ last'.op = "read"
        /\ last'.key \notin DOMAIN storage.data
        /\ last'.response.tag # "Ok"
        /\ last'.response # NotFoundResponse) =>
        /\ last'.ret.tag = "Err"
        /\ last'.ret # None
        /\ storage' = storage
    ]_vars

C5_Witness ==
    /\ last.op = "read"
    /\ last.fetched = 1
    /\ last.response.tag = "ResponseIsRpcError"
    /\ last.response.code # QueryFailedCode
    /\ last.ret.tag = "Err"
    /\ last.key \notin DOMAIN storage.data

----------------------------------------------------------------------------
(* Properties of Storage::commit, checked under SpecCommit *)

Effect(key, kind) == [key |-> key, kind |-> kind]
IsUpdate(kind) == kind.kind \notin {"Identity", "Write"}

\* the entries under every key but `key` are as they were before the step
OthersKept(key) ==
    /\ DOMAIN storage'.data \ {key} = DOMAIN storage.data \ {key}
    /\ \A j \in DOMAIN storage.data \ {key} :
           storage'.data[j] = storage.data[j]

\* C6: the journal [(k, Write(v1)), (k, add 1)] with a numeric v1 succeeds on
\* any store, one without k included, and leaves k = v1 + 1 (in the value's
\* wrapping arithmetic): the addition is applied to the value the Write left.
\* In the other order, [(k, add 1), (k, Write(v))] on a store holding a number
\* under k leaves k = v: the Write is applied after the addition.
C6_CommitOrdering ==
    [][last'.op = "commit" =>
        \A k \in Keys :
            /\ \A n \in IntValues :
                   last'.effects = <<Effect(k, Write(CLInt(n))),
                                     Effect(k, AddInt(1))>> =>
                       /\ last'.ret = Ok
                       /\ k \in DOMAIN storage'.data
                       /\ storage'.data[k] = CLInt((n + 1) % IntModulus)
                       /\ n + 1 \in IntValues => storage'.data[k].n = n + 1
                       /\ OthersKept(k)
            /\ \A v \in StoredValues :
                   (/\ last'.effects = <<Effect(k, AddInt(1)),
                                         Effect(k, Write(v))>>
                    /\ k \in DOMAIN storage.data
                    /\ storage.data[k].type = "int") =>
                       /\ last'.ret = Ok
                       /\ storage'.data[k] = v
                       /\ OthersKept(k)
    ]_vars

C6_Witness ==
    /\ last.op = "commit"
    /\ last.ret = Ok
    /\ \E k \in Keys :
           /\ last.effects = <<Effect(k, Write(CLInt(0))), Effect(k, AddInt(1))>>
           /\ k \in last.fresh
           /\ storage.data[k] = CLInt(1)

\* C7: a commit that returns KeyNotFound(key) stopped at an update of that
\* key and leaves no entry under it; and an update whose key was absent when
\* commit was called and that no Write of the same journal precedes is never
\* passed: the commit fails at it with KeyNotFound(its key), or earlier.
C7_UpdateNeedsKey ==
    [][last'.op = "commit" =>
        LET effects == last'.effects
            ret == last'.ret
        IN  /\ (ret.tag = "Err" /\ ret.error.kind = "KeyNotFound") =>
                /\ last'.applied < Len(effects)
                /\ IsUpdate(effects[last'.applied + 1].kind)
                /\ effects[last'.applied + 1].key = ret.error.key
                /\ ret.error.key \notin DOMAIN storage'.data
            /\ \A i \in 1..Len(effects) :
                   (/\ IsUpdate(effects[i].kind)
                    /\ effects[i].key \notin DOMAIN storage.data
                    /\ \A j \in 1..(i - 1) :
                           ~(effects[j].kind.kind = "Write"
                             /\ effects[j].key = effects[i].key)) =>
                       /\ ret.tag = "Err"
                       /\ last'.applied < i
                       /\ last'.applied = i - 1 =>
                              ret = Err([kind |-> "KeyNotFound",
                                         key |-> effects[i].key])
    ]_vars

C7_Witness ==
    /\ last.op = "commit"
    /\ last.ret.tag = "Err"
    /\ last.ret.error.kind = "KeyNotFound"
    /\ last.applied = 1
    /\ last.effects[1].kind.kind = "Write"
    /\ last.ret.error.key \notin DOMAIN storage.data

\* C8: the journal [(k, Write(v))] succeeds from any store and leaves k = v
\* and every other key as it was; committed again right after, it leaves
\* the store as the first commit left it.
C8_IdempotentWrite ==
    [][(/\ last'.op = "commit"
        /\ Len(last'.effects) = 1
        /\ last'.effects[1].kind.kind = "Write") =>
        LET k == last'.effects[1].key
            v == last'.effects[1].kind.value
        IN  /\ last'.ret = Ok
            /\ k \in DOMAIN storage'.data
            /\ storage'.data[k] = v
            /\ OthersKept(k)
            /\ (last.op = "commit" /\ last.effects = last'.effects) =>
                   storage' = storage
    ]_vars

C8_Witness ==
    /\ last.op = "commit"
    /\ last.ret = Ok
    /\ Len(last.effects) = 1
    /\ last.effects[1].kind.kind = "Write"
    /\ last.fresh = {}
    /\ storage.data[last.effects[1].key] = last.effects[1].kind.value
    /\ DOMAIN storage.data = Keys

----------------------------------------------------------------------------
(* Properties of Storage::new on a missing snapshot file *)

\* C9: Storage::new with create_if_missing = false on an identity whose file
\* does not exist returns MissingFile with the computed path, returns no
\* store, and creates neither the file nor its directory.
C9_MissingFileNoCreate ==
    [][(/\ last'.op = "new"
        /\ ~last'.create_if_missing
        /\ last'.path \notin DOMAIN files) =>
        /\ last'.ret = Err([kind |-> "MissingFile",
                            path |-> Path(last'.root_path, last'.chain_name,
                                          last'.state_hash)])
        /\ ~storage'.live
        /\ files' = files
        /\ dirs' = dirs
    ]_vars

C9_Witness ==
    /\ last.op = "new"
    /\ ~last.create_if_missing
    /\ last.ret.tag = "Err"
    /\ last.ret.error.kind = "MissingFile"
    /\ last.path \notin DOMAIN files
    /\ last.path.dir \notin dirs

\* C10: Storage::new with create_if_missing = true on an identity whose file
\* does not exist either returns an empty store whose file exists and, opened
\* again (with either flag), gives the same empty store; or fails with
\* CreateDir or Write and returns no store.
C10_CreateOnOpen ==
    [][(/\ last'.op = "new"
        /\ last'.create_if_missing
        /\ last'.path \notin DOMAIN files) =>
        \/ /\ last'.ret = Ok
           /\ storage'.live
           /\ storage'.path = last'.path
           /\ storage'.data = EmptyMap
           /\ last'.path \in DOMAIN files'
           /\ \A create \in BOOLEAN :
                  LET again == StorageNewResult(files', dirs', last'.root_path,
                                                last'.chain_name,
                                                last'.state_hash, create, "ok")
                  IN  again.ret = Ok /\ again.storage = storage'
        \/ /\ last'.ret.tag = "Err"
           /\ last'.ret.error.kind \in {"CreateDir", "Write"}
           /\ ~storage'.live
    ]_vars

C10_Witness ==
    /\ last.op = "new"
    /\ last.create_if_missing
    /\ ~last.existed
    /\ last.ret = Ok
    /\ storage.live
    /\ storage.data = EmptyMap
    /\ storage.path \in DOMAIN files

----------------------------------------------------------------------------
(* Properties of Storage::new on a snapshot file that does not decode *)

\* C11: Storage::new on an identity whose file exists and is read but does
\* not decode as a serialized mapping returns the Deserialize error naming
\* the file's path, returns no store, and leaves the file as it was, with
\* either value of create_if_missing.
C11_DecodeFailure ==
    [][(/\ last'.op = "new"
        /\ last'.path \in DOMAIN files
        /\ last'.io # "read_fails"
        /\ ~Deserialize(files[last'.path]).ok) =>
        /\ last'.ret.tag = "Err"
        /\ last'.ret.error.kind = "Deserialize"
        /\ last'.ret.error.path = Path(last'.root_path, last'.chain_name,
                                      last'.state_hash)
        /\ ~storage'.live
        /\ ~state_storage'.live
        /\ files' = files
        /\ dirs' = dirs
    ]_vars

C11_Witness ==
    /\ last.op = "new"
    /\ last.create_if_missing
    /\ last.existed
    /\ last.ret.tag = "Err"
    /\ last.ret.error.kind = "Deserialize"
    /\ last.path \in DOMAIN files
    /\ ~Deserialize(files[last.path]).ok
    /\ ~storage.live

----------------------------------------------------------------------------
(* Properties of the clones of a Storage *)

\* what persist() through the caller's handle writes, decoded again
PersistedBy(storage_, files_, dirs_, order) ==
    LET p == PersistResult(files_, dirs_, storage_.path, storage_.data, order,
                           "ok")
    IN  Deserialize(p.files[storage_.path]).data

\* C12: the State's clone and the caller's Storage share one mapping. They
\* name the same file and hold the same entries in every state; a value
\* cached by a read through the State's clone is returned by get on the
\* caller's Storage and is in what its persist writes; a value inserted or
\* committed through the caller's Storage is what the next read through the
\* State's clone returns, without a fetch.
C12_ClonesShare ==
    [][/\ state_storage'.live =>
            /\ storage'.live
            /\ state_storage'.path = storage'.path
            /\ HandleData(state_storage)' = storage'.data
       /\ (last'.op = "read" /\ last'.fetched = 1 /\ last'.ret.tag = "Some") =>
            /\ GetResult(storage'.data, last'.key) = last'.ret
            /\ \A order \in Orders(storage'.data) :
                   LET written == PersistedBy(storage', files', dirs', order)
                   IN  /\ last'.key \in DOMAIN written
                       /\ Some(written[last'.key]) = last'.ret
       /\ (last'.op \in {"insert", "commit"} /\ last'.ret = Ok) =>
            \A key \in DOMAIN storage'.data, response \in RemoteResponses :
                LET r == ReadResult(HandleData(state_storage)', key, response)
                IN  /\ r.ret = Some(storage'.data[key])
                    /\ r.fetched = 0
    ]_vars

C12_Witness ==
    /\ last.op = "read"
    /\ last.fetched = 1
    /\ last.ret.tag = "Some"
    /\ state_storage.live
    /\ state_storage.rc = "storage"
    /\ GetResult(storage.data, last.key) = last.ret
    /\ \E other \in DOMAIN storage.data : other # last.key

----------------------------------------------------------------------------
(* Properties of what reaches the snapshot file *)

C14_WrittenOnPersistAndDrop ==
    [][/\ (last'.op = "persist" /\ last'.ret = Ok) =>
            /\ storage.path \in DOMAIN files'
            /\ Deserialize(files'[storage.path]) = DecodeOk(storage.data)
       /\ last'.op = "drop" =>
            /\ storage.path \in DOMAIN files'
            /\ Deserialize(files'[storage.path]) = DecodeOk(storage.data)
       /\ last'.op \in {"insert", "get", "commit", "read"} => files' = files
    ]_vars

----------------------------------------------------------------------------
(* Properties of State *)

\* C15: checkout and commit with a state root other than the pinned one
\* panic on the assertion: no value and no error is returned, the store, the
\* pinned root and the files stay as they were, and nothing but the drop
\* follows. checkout with the pinned root returns Some of a State with the
\* same pinned root whose Storage is the same path and the same mapping.
C15_OneRoot ==
    [][/\ (/\ last'.op \in {"checkout", "state_commit"}
           /\ last'.state_hash # state_hash) =>
            /\ last'.ret = AssertEqFailed
            /\ storage' = storage
            /\ state_storage' = state_storage
            /\ state_hash' = state_hash
            /\ files' = files
            /\ dirs' = dirs
       /\ Panicked => last'.op = "drop"
       /\ (last'.op = "checkout" /\ last'.state_hash = state_hash) =>
            /\ last'.ret.tag = "Some"
            /\ last'.ret.value.state_hash = state_hash
            /\ last'.ret.value.storage.live
            /\ last'.ret.value.storage.path = storage.path
            /\ last'.ret.value.storage.rc = state_storage.rc
            /\ HandleData(state_storage)' = storage'.data
            /\ storage' = storage
            /\ state_storage' = state_storage
            /\ state_hash' = state_hash
    ]_vars

C15_Witness ==
    /\ last.op = "checkout"
    /\ last.state_hash = DigestB
    /\ state_hash = DigestA
    /\ last.ret.tag = "Panic"
    /\ storage.live
    /\ storage.data # EmptyMap

\* C16: commit with the pinned root changes the store exactly as
\* Storage::commit does on the same map and journal, fails exactly when it
\* fails, and on success returns Digest::default(), the value empty_root
\* returns, whatever the journal and the store; the State stays pinned to
\* its root, which is the only one a later checkout or commit accepts.
C16_StateCommit ==
    [][(last'.op = "state_commit" /\ last'.state_hash = state_hash) =>
        LET c == CommitResult(storage.data, last'.effects)
        IN  /\ storage'.data = c.data
            /\ last'.applied = c.applied
            /\ c.ret = Ok => last'.ret = OkValue(DefaultDigest)
            /\ c.ret = Ok => last'.ret.value = EmptyRootResult
            /\ c.ret # Ok =>
                   /\ last'.ret.tag = "Err"
                   /\ last'.ret.error.commit_error = c.ret.error
            /\ state_hash' = state_hash
            /\ state_storage' = state_storage
            /\ files' = files
            /\ \A state_hash_ \in RequestedDigests :
                   /\ CheckoutResult(state_hash', state_storage',
                                     storage'.data, state_hash_).tag = "Some"
                          <=> state_hash_ = state_hash
                   /\ StateCommitResult(state_hash', storage'.data,
                                        state_hash_, <<>>).ret.tag = "Ok"
                          <=> state_hash_ = state_hash
    ]_vars

C16_Witness ==
    /\ last.op = "state_commit"
    /\ last.ret = OkValue(DefaultDigest)
    /\ last.applied = 1
    /\ last.effects[1].kind = AddInt(1)
    /\ state_hash = DigestA
    /\ storage.data # EmptyMap

\* C17: read_with_proof(k) does what read(k) does: the same change of the
\* store, the same number of fetches, None where read returns None, the
\* same error where read fails, and where read returns Some(v), Some of a
\* proof of key k and value v with no proof steps.
C17_ReadWithProof ==
    [][last'.op = "read_with_proof" =>
        LET r == ReadResult(storage.data, last'.key, last'.response)
        IN  /\ storage'.data = r.data
            /\ last'.fetched = r.fetched
            /\ last'.ret.tag = r.ret.tag
            /\ r.ret.tag = "Some" =>
                   /\ last'.ret.value.key = last'.key
                   /\ last'.ret.value.value = r.ret.value
                   /\ last'.ret.value.proof_steps = <<>>
            /\ r.ret.tag = "Err" => last'.ret = r.ret
            /\ files' = files
            /\ state_hash' = state_hash
    ]_vars

C17_Witness ==
    /\ last.op = "read_with_proof"
    /\ last.fetched = 1
    /\ last.ret.tag = "Some"
    /\ last.ret.value.proof_steps = <<>>
    /\ last.key \in DOMAIN storage.data
    /\ storage.data[last.key] = last.ret.value.value

\* C18: keys_with_prefix, get_trie_full, put_trie, missing_children and
\* delete_keys panic with "not implemented": they return no value and no
\* error, and leave the store, the pinned root and the files as they were.
C18_Unimplemented ==
    [][last'.op \in TrieOps =>
        /\ last'.ret = NotImplemented
        /\ storage' = storage
        /\ state_storage' = state_storage
        /\ state_hash' = state_hash
        /\ files' = files
        /\ dirs' = dirs
    ]_vars

C18_Witness ==
    /\ last.op = "delete_keys"
    /\ last.ret.tag = "Panic"
    /\ last.ret.message = "not implemented"
    /\ storage.live
    /\ storage.data # EmptyMap

----------------------------------------------------------------------------
(* Properties of the fetches of State::read *)

\* C19 as stated, on two reads in a row: once a read has queried the remote
\* endpoint for a key, the next read of that key does not query it again.
C19_AtMostOneFetchPerKey ==
    [][(/\ last.op = "read"
        /\ last.fetched = 1
        /\ last'.op = "read"
        /\ last'.key = last.key) =>
        last'.fetched = 0
    ]_vars

\* C19, amended: a read queries the remote endpoint exactly when the key is
\* absent from the store. A fetch that returns a value puts it in the store,
\* and no step on a live store removes a key, so that key is never queried
\* again; a fetch answered "not found" or failed leaves the store as it
\* was, and the next read of that key queries the endpoint again.
C19_FetchOnlyWhenAbsent ==
    [][/\ last'.op = "read" =>
            (last'.fetched = 1 <=> last'.key \notin DOMAIN storage.data)
       /\ (last'.op = "read" /\ last'.fetched = 1
               /\ last'.response.tag = "Ok") =>
            /\ last'.key \in DOMAIN storage'.data
            /\ storage'.data[last'.key] = last'.response.stored_value
            /\ \A response \in RemoteResponses :
                   ReadResult(storage'.data, last'.key, response).fetched = 0
       /\ (storage.live /\ storage'.live) =>
            DOMAIN storage.data \subseteq DOMAIN storage'.data
       /\ (last'.op = "read" /\ last'.fetched = 1
               /\ last'.response.tag # "Ok") =>
            /\ storage' = storage
            /\ \A response \in RemoteResponses :
                   ReadResult(storage'.data, last'.key, response).fetched = 1
    ]_vars

\* a read answered "not found" has queried the endpoint and left its key
\* absent from a store that holds another key
C19_Witness ==
    /\ last.op = "read"
    /\ last.fetched = 1
    /\ last.response = NotFoundResponse
    /\ last.ret = None
    /\ storage.live
    /\ storage.data # EmptyMap
    /\ last.key \notin DOMAIN storage.data

----------------------------------------------------------------------------
(* Properties of the errors returned *)

\* the remote answers that make State::read fail
FailingResponses ==
    {response \in RemoteResponses :
        ReadResult(EmptyMap, KeySeq[1], response).ret.tag = "Err"}

\* C20: every failure is returned with its context: an error of Storage::new
\* or persist carries the path, an error of commit carries the missing key
\* or the cause of the transform's failure, and an error of read carries
\* the cause of the remote failure, so that a different remote failure would
\* have given a different error.
C20_ErrorsCarryContext ==
    /\ (last.op = "new" /\ last.ret.tag = "Err") =>
            /\ "path" \in DOMAIN last.ret.error
            /\ last.ret.error.path \in {last.path, Parent(last.path)}
    /\ (last.op = "persist" /\ last.ret.tag = "Err") =>
            /\ "path" \in DOMAIN last.ret.error
            /\ last.ret.error.path \in {storage.path, Parent(storage.path)}
    /\ (last.op = "commit" /\ last.ret.tag = "Err") =>
            \/ /\ last.ret.error.kind = "KeyNotFound"
               /\ \E i \in 1..Len(last.effects) :
                      last.effects[i].key = last.ret.error.key
            \/ /\ last.ret.error.kind = "TransformError"
               /\ "cause" \in DOMAIN last.ret.error
    /\ (last.op = "read" /\ last.ret.tag = "Err") =>
            \A response \in FailingResponses :
                response # last.response =>
                    ReadResult(EmptyMap, last.key, response).ret # last.ret

----------------------------------------------------------------------------
(* Properties of a commit that fails *)

\* the map after the first n effects of a journal, each committed as a
\* journal of its own
RECURSIVE AfterEach(_, _, _)
AfterEach(data, effects, n) ==
    IF n = 0 THEN data
    ELSE CommitResult(AfterEach(data, effects, n - 1), <<effects[n]>>).data

\* C25: a commit that fails does so at one entry i of its journal, with
\* KeyNotFound or TransformError. The map it leaves is the one the entries
\* before i give, applied one by one, which is also what a successful commit
\* of those entries alone gives; entry i, committed alone on that map, fails
\* in the same way and changes nothing, so the value under its key is what
\* the earlier entries left; no entry after i is applied.
C25_PartialApplication ==
    [][(last'.op = "commit" /\ last'.ret.tag = "Err") =>
        LET effects == last'.effects
            i == last'.applied + 1
            before == AfterEach(storage.data, effects, i - 1)
            prefix == CommitResult(storage.data, SubSeq(effects, 1, i - 1))
            alone == CommitResult(storage'.data, <<effects[i]>>)
        IN  /\ i \in 1..Len(effects)
            /\ last'.ret.error.kind \in {"KeyNotFound", "TransformError"}
            /\ storage'.data = before
            /\ prefix.ret = Ok
            /\ prefix.data = storage'.data
            /\ alone.ret = last'.ret
            /\ alone.data = storage'.data
    ]_vars

C25_Witness ==
    /\ last.op = "commit"
    /\ last.ret.tag = "Err"
    /\ last.applied = 1
    /\ Len(last.effects) = 2
    /\ last.effects[1].key \in last.fresh
    /\ last.effects[1].key \in DOMAIN storage.data
    /\ last.effects[1].key # last.effects[2].key

----------------------------------------------------------------------------
(* Properties of a commit on a key the store does not hold *)

\* C28: commit works on the local store alone. An update of a key that the
\* store does not hold fails with KeyNotFound of that key, whatever the
\* remote holds under it, and leaves the store, the pinned root and the
\* files as they were; nothing is fetched in its place.
C28_CommitLocalOnly ==
    [][(/\ last'.op = "state_commit"
        /\ last'.state_hash = state_hash
        /\ Len(last'.effects) = 1
        /\ IsUpdate(last'.effects[1].kind)
        /\ last'.effects[1].key \notin DOMAIN storage.data) =>
        /\ last'.ret.tag = "Err"
        /\ last'.ret.error.kind = "CommitError"
        /\ last'.ret.error.commit_error
               = [kind |-> "KeyNotFound", key |-> last'.effects[1].key]
        /\ last'.applied = 0
        /\ storage' = storage
        /\ state_storage' = state_storage
        /\ state_hash' = state_hash
        /\ files' = files
        /\ dirs' = dirs
    ]_vars

C28_Witness ==
    /\ last.op = "state_commit"
    /\ last.state_hash = state_hash
    /\ last.ret.tag = "Err"
    /\ last.ret.error.commit_error.kind = "KeyNotFound"
    /\ last.ret.error.commit_error.key \notin DOMAIN storage.data
    /\ storage.data # EmptyMap

----------------------------------------------------------------------------
(* Properties of the blocking fetch of State::read *)

\* C26: a read that misses spawns one worker, which sends one request; while
\* the worker has not finished the calling thread stays in join and no
\* store or view operation takes place; the read returns only once the
\* worker has finished, with the remote's answer to that one request; a read
\* that hits spawns nothing. So no two fetches are in flight at a time.
C26_BlockingBridge ==
    [][/\ (~Blocked /\ Blocked') =>
            /\ last'.op = "read_call"
            /\ last'.key \notin DOMAIN storage.data
            /\ bridge'.worker = "spawned"
            /\ bridge'.requests = 0
       /\ (last'.op = "read" /\ ~Blocked) =>
            /\ last'.fetched = 0
            /\ bridge' = bridge
       /\ Blocked' =>
            /\ bridge'.worker # "none"
            /\ bridge'.requests <= 1
            /\ bridge'.request = "sent" => bridge'.requests = 1
       /\ bridge'.worker \in {"spawned", "waiting", "ready"} => Blocked'
       /\ (Blocked /\ Blocked') =>
            /\ last' = last
            /\ storage' = storage
            /\ state_storage' = state_storage
            /\ files' = files
       /\ (Blocked /\ ~Blocked') =>
            /\ bridge.worker = "finished"
            /\ bridge.request = "answered"
            /\ bridge.requests = 1
            /\ last'.op = "read"
            /\ last'.key = bridge.key
            /\ last'.fetched = 1
            /\ last'.response = bridge.response
            /\ last'.ret = ReadResult(storage.data, bridge.key,
                                      bridge.response).ret
            /\ bridge'.worker = "none"
    ]_vars

C26_Witness ==
    /\ last.op = "read"
    /\ last.fetched = 1
    /\ last.ret.tag = "Some"
    /\ ~Blocked
    /\ bridge.worker = "none"
    /\ last.key \in DOMAIN storage.data

\* C27: a read that is blocked in join returns only when the remote has
\* answered its request, and, the remote answering every request and the
\* threads being scheduled, every blocked read returns, with the outcome of
\* that answer.
C27_BlockedReadReturns ==
    /\ [][(Blocked /\ ~Blocked') => bridge.request = "answered"]_vars
    /\ Blocked ~> (~Blocked /\ last.op = "read" /\ last.fetched = 1)

----------------------------------------------------------------------------
(* Properties of the snapshot files of several identities *)

\* C30: stores of different (network name, state root digest) identities in
\* one root directory use different snapshot files: a store that opens an
\* existing file loads a file written by a store of its own identity, and a
\* persist overwrites only a file written by a store of its own identity.
C30_SnapshotIsolation ==
    [][/\ (last'.op = "new" /\ last'.ret = Ok /\ last'.existed
           /\ last'.path \in DOMAIN persisted) =>
            persisted[last'.path].owner
                = <<last'.chain_name, last'.state_hash>>
       /\ (last'.op = "persist" /\ last'.ret = Ok
           /\ storage.path \in DOMAIN persisted) =>
            persisted[storage.path].owner
                = <<storage.path.file[1], state_hash>>
    ]_vars

----------------------------------------------------------------------------
(* Properties of the options of exec, checked under SpecExec *)

\* C21: in a sequence of exec runs, a run reads the options the most recent
\* earlier run cached; for each of storage dir, chain name and node address
\* it uses the user's value if one was passed, otherwise the cached one,
\* otherwise (nothing being cached) the default; for the state hash it uses
\* the one the user's snapshot id names (asking the node it uses for the
\* latest), otherwise the cached one, otherwise the latest of the node; and
\* the options used are what the cached config holds after the run.
C21_OptionCaching ==
    [][last'.op = "exec" =>
        LET o == last'.options
            used == last'.used.value
            fetched == last'.env.state_root_hash.state_root_hash.value
            storage_dir == IF o.storage_dir.by = "User" THEN o.storage_dir.value
                           ELSE IF cached.tag = "Some"
                                THEN cached.value.storage_dir
                                ELSE default_storage_dir
            chain_name == IF o.chain_name.by = "User" THEN o.chain_name.value
                          ELSE IF cached.tag = "Some"
                               THEN cached.value.chain_name
                               ELSE DefaultChainName
            node_address == IF o.node_address.by = "User"
                            THEN o.node_address.value
                            ELSE IF cached.tag = "Some"
                                 THEN cached.value.node_address
                                 ELSE DefaultNodeAddress
            asks == \/ o.snapshot_id = User(Latest)
                    \/ o.snapshot_id.by = "Default" /\ cached.tag = "None"
        IN  /\ last'.read = cached
            /\ last'.asked = IF asks THEN node_address ELSE ""
            /\ last'.used.tag = "Some" =>
                /\ used.storage_dir = storage_dir
                /\ used.chain_name = chain_name
                /\ used.node_address = node_address
                /\ used.state_hash =
                       IF asks THEN fetched
                       ELSE IF o.snapshot_id.by = "User"
                            THEN o.snapshot_id.value.state_hash
                            ELSE cached.value.state_hash
                /\ TryRead(files', "ok") = OkValue(last'.used)
                /\ cached' = last'.used
            /\ last'.used.tag = "None" =>
                /\ asks
                /\ last'.ret.tag = "Err"
                /\ files' = files
                /\ cached' = cached
    ]_vars

C21_Witness ==
    /\ last.op = "exec"
    /\ last.read.tag = "Some"
    /\ last.options.storage_dir.by = "Default"
    /\ last.read.value.storage_dir # default_storage_dir
    /\ last.used.tag = "Some"
    /\ last.used.value.storage_dir = last.read.value.storage_dir
    /\ last.options.snapshot_id = User(Latest)
    /\ last.read.value.state_hash = DigestB
    /\ last.used.value.state_hash = DigestA
    /\ cached = last.used

----------------------------------------------------------------------------
(* Properties of show, checked under SpecCli *)

\* C22: a run of show, in any of its three modes, leaves every file and
\* directory (the snapshot file and the cached config among them) as it
\* was; what show value and show all-state print is what the snapshot file
\* of the cached identity holds, a key the file does not hold being reported
\* as not found; and when that file is missing (the cached config having
\* been read) they fail with Storage(MissingFile) of its path, the file
\* still missing afterwards.
C22_ShowIsLocal ==
    [][last'.op \in {"show_value", "show_all_state", "show_cached_config"} =>
        LET read == TryRead(files, "ok")
            config == read.value.value
            path == Path(config.storage_dir, config.chain_name,
                         config.state_hash)
            held == Deserialize(files[path]).data
            read_failed == /\ last'.ret.tag = "Err"
                           /\ last'.ret.error.kind = "CachedConfig"
            opens == /\ last'.op # "show_cached_config"
                     /\ ~read_failed
                     /\ read.tag = "Ok"
                     /\ read.value.tag = "Some"
        IN  /\ files' = files
            /\ dirs' = dirs
            /\ TryRead(files', "ok") = read
            /\ (opens /\ path \notin DOMAIN files) =>
                /\ last'.ret = Err([kind |-> "Storage",
                                    storage_error |->
                                        [kind |-> "MissingFile",
                                         path |-> path]])
                /\ path \notin DOMAIN files'
            /\ (opens /\ last'.ret = Ok) =>
                /\ path \in DOMAIN files
                /\ last'.op = "show_value" =>
                    last'.output = IF last'.key \in DOMAIN held
                                   THEN Some(held[last'.key])
                                   ELSE ValueNotFound
                /\ last'.op = "show_all_state" => last'.output = Some(held)
            /\ (last'.op = "show_cached_config" /\ last'.ret = Ok) =>
                last'.output = Some(read.value)
    ]_vars

C22_Witness ==
    /\ last.op = "show_value"
    /\ last.ret = Ok
    /\ last.output = ValueNotFound
    /\ \E p \in DOMAIN files :
        /\ p # CachedConfigPath
        /\ Deserialize(files[p]).ok
        /\ DOMAIN Deserialize(files[p]).data = Keys \ {last.key}

----------------------------------------------------------------------------
(* Properties of clean, checked under SpecCli *)

\* C23: a run of clean that succeeds leaves no snapshot file under the
\* storage dir the cached config names and leaves the cached config as it
\* was: try_read returns after the run what it returned before, whatever
\* the storage dir is; and when the storage dir does not exist the run
\* changes no file and no directory.
C23_CleanKeepsConfig ==
    [][(last'.op = "clean" /\ last'.ret = Ok) =>
        LET read == TryRead(files, "ok")
            dir == read.value.value.storage_dir
        IN  /\ read.tag = "Ok"
            /\ read.value.tag = "Some"
            /\ \A p \in DOMAIN files' : p.dir = dir => p = CachedConfigPath
            /\ TryRead(files', "ok") = read
            /\ dir \notin dirs => (files' = files /\ dirs' = dirs)
    ]_vars

----------------------------------------------------------------------------
(* Properties of the stages of an exec run, checked under SpecRun *)

\* C24: a run of exec that fails reports the stage that failed with the
\* Error variant documented for it: the request for the state root hash
\* with FailedToGetStateHash, the request for the chainspec with
\* FailedToGetChainspec, Storage::new and persist with Storage, run_execute
\* with Execution, apply_effects with Commit; and each of these variants is
\* returned by no other stage.
C24_StageErrors ==
    [][(last'.op = "exec" /\ last'.ret.tag = "Err") =>
        LET kind == last'.ret.error.kind
            stage == last'.stage
        IN  /\ (stage = "get_state_root_hash"
                /\ last'.env.state_root_hash.tag = "Err")
                   <=> kind = "FailedToGetStateHash"
            /\ (stage = "get_chainspec" /\ last'.env.chainspec.tag = "Err")
                   <=> kind = "FailedToGetChainspec"
            /\ stage \in {"Storage::new", "persist"} <=> kind = "Storage"
            /\ stage = "run_execute" <=> kind = "Execution"
            /\ stage = "apply_effects" <=> kind = "Commit"
    ]_vars

====
